---- MODULE Spec2Model ----
(***************************************************************************)
(* A model of the SBL tool chain: the tokenizers (tokenizer.rs), the       *)
(* single-pass compiler with back-patching (ops.rs), the forking type      *)
(* checker (type_checking.rs) and the stack-machine interpreter            *)
(* (execution.rs).                                                         *)
(*                                                                         *)
(* Two state machines live in this module.                                 *)
(*   SpecTok : a tokenizer (TokenArray or Lexer) driven by a client calling *)
(*             next_token / peek_token / peek_kind / expect_token.         *)
(*   Spec    : the pipeline  source -> compile_ops -> type_check_ops ->    *)
(*             run_ops, one step per token, per checker op, per            *)
(*             interpreter op.                                             *)
(***************************************************************************)
EXTENDS Integers, Sequences, FiniteSets, TLC

VARIABLES
    \* ---- tokenizer machine (SpecTok) ----
    ta,          \* the tokenizer: [impl, tokens, position]
    ta_op,       \* the last call made on it and what it returned
    ta_returned, \* history: the tokens next_token has returned, in order
    ta_calls,    \* number of calls made so far
    \* ---- pipeline machine (Spec) ----
    pc,          \* "compile" | "check" | "run" | "done"
    cs,          \* compile_ops' state: tokenizer, ops, block_stack, scopes, result
    chk,         \* type_check_ops' state: contexts (work-stack), result
    seen,        \* history: [ip, types] of the context at work, one entry per checker step
    started,     \* history: the ips at which SkipProc started body contexts
    rs,          \* run_ops' state: ip, stack, return_stack, output, result
    frames,      \* history: entry and call site of the calls not yet returned
    steps,       \* number of interpreter steps taken
    \* ---- character scanner (SpecLex) ----
    lx           \* the Lexer over characters and what its last next_token returned

tokvars == <<ta, ta_op, ta_returned, ta_calls>>
pipevars == <<pc, cs, chk, seen, started, rs, frames, steps>>
lexvars == <<lx>>
vars == <<ta, ta_op, ta_returned, ta_calls, pc, cs, chk, seen, started, rs, frames, steps, lx>>

\* ------------------------------------------------------------------------
\* Bounds of the model
\* ------------------------------------------------------------------------
\* longest token array the tokenizer machine is built over
MaxTokens == 2
\* calls a client makes on one tokenizer
MaxCalls == 3
\* longest source of the exhaustive family of sources
MaxLen == 2
\* interpreter steps taken on one program before the model stops watching
MaxSteps == 60
\* checker steps taken on one program before the model stops watching
MaxCheckSteps == 300
\* nesting depth of the structured family of sources
StructDepth == 2
\* interpreter steps granted to one signature sub-program at compile time
SigFuel == 12

\* ------------------------------------------------------------------------
\* Small helpers
\* ------------------------------------------------------------------------
Last(s) == s[Len(s)]

Front(s) == SubSeq(s, 1, Len(s) - 1)

\* the last n elements of s
Suffix(s, n) == SubSeq(s, Len(s) - n + 1, Len(s))

\* s without its last n elements
DropLast(s, n) == SubSeq(s, 1, Len(s) - n)

RECURSIVE SeqsUpTo(_, _)
SeqsUpTo(S, n) ==
    IF n = 0 THEN {<<>>}
    ELSE LET shorter == SeqsUpTo(S, n - 1)
         IN  shorter \cup {Append(s, x) : s \in shorter, x \in S}

\* longest source the character scanner is run over
MaxChars == 3

\* ------------------------------------------------------------------------
\* token.rs : Token.  The location is the token's index in its source, and
\* every token has length 1, so that locations stay comparable.
\* ------------------------------------------------------------------------
Tok(kind, int, str, loc) ==
    [kind |-> kind, int |-> int, str |-> str, location |-> loc, length |-> 1]

\* a token without payload
K(kind) == Tok(kind, 0, "", 0)

I(n) == Tok("Integer", n, "", 0)

N(name) == Tok("Name", 0, name, 0)

\* stamps each token of a source with its index as location
Located(toks) == [i \in 1..Len(toks) |-> [toks[i] EXCEPT !.location = i]]

\* ------------------------------------------------------------------------
\* tokenizer.rs : TokenArray
\* ------------------------------------------------------------------------
TokenArray(tokens) == [impl |-> "TokenArray", tokens |-> tokens, position |-> 0]

\* tokenizer.rs:32-54
get_end_of_file_token(t) ==
    [kind |-> "EndOfFile", int |-> 0, str |-> "",
     location |-> IF Len(t.tokens) > 0
                  THEN Last(t.tokens).location + Last(t.tokens).length
                  ELSE 0,
     length |-> 0]

\* tokenizer.rs:58-65.  self.position += 1 comes first; tokens[position - 1]
\* (0-based) is tokens[position] here (1-based).
TokenArray_next_token(t) ==
    LET p == t.position + 1
    IN  [tz |-> [t EXCEPT !.position = p],
         token |-> IF p < Len(t.tokens) THEN t.tokens[p]
                   ELSE get_end_of_file_token(t)]

\* tokenizer.rs:67-73
TokenArray_peek_token(t) ==
    IF t.position < Len(t.tokens) THEN t.tokens[t.position + 1]
    ELSE get_end_of_file_token(t)

\* tokenizer.rs:75-81
TokenArray_peek_kind(t) ==
    IF t.position < Len(t.tokens) THEN t.tokens[t.position + 1].kind
    ELSE "EndOfFile"

\* ------------------------------------------------------------------------
\* lexer.rs : Lexer, seen through its token contract.  The source is held
\* as the sequence of tokens its characters scan to; position counts the
\* tokens scanned so far.  next_token at the end returns EndOfFile and
\* leaves the position where it is (lexer.rs:154-159).
\* ------------------------------------------------------------------------
Lexer(tokens) == [impl |-> "Lexer", tokens |-> tokens, position |-> 0]

Lexer_eof(t) ==
    [kind |-> "EndOfFile", int |-> 0, str |-> "",
     location |-> Len(t.tokens) + 1, length |-> 0]

\* lexer.rs:150-282
Lexer_next_token(t) ==
    IF t.position < Len(t.tokens)
    THEN [tz |-> [t EXCEPT !.position = t.position + 1],
          token |-> t.tokens[t.position + 1]]
    ELSE [tz |-> t, token |-> Lexer_eof(t)]

\* lexer.rs:284-287: a clone of the lexer scans the token
Lexer_peek_token(t) == Lexer_next_token(t).token

\* lexer.rs:289-291
Lexer_peek_kind(t) == Lexer_peek_token(t).kind

\* ------------------------------------------------------------------------
\* lexer.rs : Lexer::next_token over the characters of a source.  A source
\* is a sequence of one-character strings; "EOF" stands for the '\0' that
\* peek_char hands out past the end.  The scanner keeps its position only
\* (line and column are derived from it and feed no decision).
\* ------------------------------------------------------------------------
Digits == {"0", "1", "7", "9"}

Letters == {"b", "o", "d", "x", "f"}

Chars == Digits \cup Letters \cup {"_", " ", "+"}

\* lexer.rs:189-194 : '0'..'9' are 0..9, letters are 10 + their rank
DigitValue(chr) ==
    CASE chr = "0" -> 0  [] chr = "1" -> 1  [] chr = "7" -> 7  [] chr = "9" -> 9
      [] chr = "b" -> 11 [] chr = "d" -> 13 [] chr = "f" -> 15
      [] chr = "o" -> 24 [] chr = "x" -> 33

\* lexer.rs:118-128
Scanner(source) == [source |-> source, position |-> 0]

\* lexer.rs:130-136
peek_char(l) ==
    IF l.position < Len(l.source) THEN l.source[l.position + 1] ELSE "EOF"

\* lexer.rs:138-147 : the scanner after the character is taken
next_char(l) == [l EXCEPT !.position = @ + 1]

CharToken(kind, int, name, start, l) ==
    [kind |-> kind, int |-> int, name |-> name,
     location |-> start, length |-> l.position - start]

NoCharToken == CharToken("None", 0, <<>>, 0, Scanner(<<>>))

Scanned(l, token) ==
    [ok |-> TRUE, l |-> l, token |-> token, err_location |-> 0, err_chr |-> "",
     err_base |-> 0]

ScanError(l, location, chr, base) ==
    [ok |-> FALSE, l |-> l, token |-> NoCharToken,
     err_location |-> location, err_chr |-> chr, err_base |-> base]

\* lexer.rs:167-178 : a leading '0' is taken, the character after it is
\* looked at, and not taken
LiteralBase(l) ==
    IF peek_char(l) = "0"
    THEN LET chr == peek_char(next_char(l))
         IN  CASE chr = "b" -> 2 [] chr = "o" -> 8 [] chr = "d" -> 10
               [] chr = "x" -> 16 [] OTHER -> 10
    ELSE 10

AfterBase(l) == IF peek_char(l) = "0" THEN next_char(l) ELSE l

\* lexer.rs:180-216 : the digit loop
RECURSIVE ScanDigits(_, _, _, _)
ScanDigits(l, start, base, int_value) ==
    LET chr == peek_char(l)
    IN  IF chr \in Digits \cup Letters
        THEN IF DigitValue(chr) >= base
             THEN ScanError(l, l.position, chr, base)
             ELSE ScanDigits(next_char(l), start, base,
                             int_value * base + DigitValue(chr))
        ELSE IF chr = "_" THEN ScanDigits(next_char(l), start, base, int_value)
        ELSE Scanned(l, CharToken("Integer", int_value, <<>>, start, l))

\* lexer.rs:226-248 : no name over Letters and Digits is a keyword
RECURSIVE ScanName(_, _, _)
ScanName(l, start, name) ==
    LET chr == peek_char(l)
    IN  IF chr \in Digits \cup Letters \cup {"_"}
        THEN ScanName(next_char(l), start, Append(name, chr))
        ELSE Scanned(l, CharToken("Name", 0, name, start, l))

\* lexer.rs:150-282
RECURSIVE Lexer_scan(_)
Lexer_scan(l) ==
    LET chr == peek_char(l)
    IN  IF chr = "EOF" THEN Scanned(l, CharToken("EndOfFile", 0, <<>>, l.position, l))
        ELSE IF chr = " " THEN Lexer_scan(next_char(l))
        ELSE IF chr \in Digits
        THEN ScanDigits(AfterBase(l), l.position, LiteralBase(l), 0)
        ELSE IF chr \in Letters \cup {"_"} THEN ScanName(l, l.position, <<>>)
        ELSE IF chr = "+"
        THEN Scanned(next_char(l), CharToken("Plus", 0, <<>>, l.position, next_char(l)))
        ELSE ScanError(next_char(l), l.position, chr, 0)

\* ------------------------------------------------------------------------
\* tokenizer.rs : trait Tokenizer, dispatched on the implementation
\* ------------------------------------------------------------------------
next_token(t) ==
    IF t.impl = "TokenArray" THEN TokenArray_next_token(t) ELSE Lexer_next_token(t)

peek_token(t) ==
    IF t.impl = "TokenArray" THEN TokenArray_peek_token(t) ELSE Lexer_peek_token(t)

peek_kind(t) ==
    IF t.impl = "TokenArray" THEN TokenArray_peek_kind(t) ELSE Lexer_peek_kind(t)

NoToken == Tok("None", 0, "", 0)

\* tokenizer.rs:9-22 (and lexer.rs:293-306): the result carries ok, the token
\* returned (or the offending token in the error), and the tokenizer after.
expect_token(t, kind) ==
    LET actual_token == peek_token(t)
    IN  IF actual_token.kind # kind
        THEN [ok |-> FALSE, tz |-> t, token |-> NoToken,
              err_location |-> actual_token.location,
              err_actual |-> actual_token.kind, err_expected |-> kind]
        ELSE LET r == next_token(t)
             IN  [ok |-> TRUE, tz |-> r.tz, token |-> r.token,
                  err_location |-> 0, err_actual |-> "", err_expected |-> ""]

\* ------------------------------------------------------------------------
\* types.rs : Type
\* ------------------------------------------------------------------------
BaseType(k) == [k |-> k, parameters |-> <<>>, return_types |-> <<>>]

TypeInteger == BaseType("Integer")

TypeBool == BaseType("Bool")

TypeType == BaseType("Type")

Procedure(parameters, return_types) ==
    [k |-> "Procedure", parameters |-> parameters, return_types |-> return_types]

\* ------------------------------------------------------------------------
\* ops.rs:6-88 : Op.  One record shape for every variant; the fields a
\* variant does not carry hold a filler.
\* ------------------------------------------------------------------------
Op(op, location) ==
    [op |-> op, location |-> location, value |-> 0, typ |-> TypeType,
     position |-> 0, parameters |-> <<>>, return_types |-> <<>>]

OpPushInteger(location, value) == [Op("PushInteger", location) EXCEPT !.value = value]

OpPushFunctionPointer(location, value) ==
    [Op("PushFunctionPointer", location) EXCEPT !.value = value]

OpPushType(location, typ) == [Op("PushType", location) EXCEPT !.typ = typ]

OpJump(location, position) == [Op("Jump", location) EXCEPT !.position = position]

OpConditonalJump(location, position) ==
    [Op("ConditonalJump", location) EXCEPT !.position = position]

OpSkipProc(location, position, parameters, return_types) ==
    [Op("SkipProc", location) EXCEPT !.position = position,
                                     !.parameters = parameters,
                                     !.return_types = return_types]

ArithmeticOps ==
    {"AddInteger", "SubtractInteger", "MultiplyInteger", "DivideInteger"}

RelationalOps ==
    {"LessThanInteger", "GreaterThanInteger", "LessThanEqualInteger",
     "GreaterThanEqualInteger"}

EqualityOps == {"Equal", "NotEqual"}

\* ------------------------------------------------------------------------
\* execution.rs:3-34 : Value
\* ------------------------------------------------------------------------
Value(tag, int, bool, typ) == [tag |-> tag, int |-> int, bool |-> bool, typ |-> typ]

VInteger(n) == Value("Integer", n, FALSE, TypeType)

VBool(b) == Value("Bool", 0, b, TypeType)

VFunctionPointer(n) == Value("FunctionPointer", n, FALSE, TypeType)

\* the variant ops.rs:469 matches on; execution.rs does not declare it
VType(t) == Value("Type", 0, FALSE, t)

\* ------------------------------------------------------------------------
\* execution.rs:36-186 : run_ops.  The state is [ip, stack, return_stack,
\* output, result]; result is "running", "exit", or the fault that stopped
\* the run:
\*   "underflow"        stack.pop().unwrap() / stack.last().unwrap() on an
\*                      empty operand stack
\*   "tag"              integer() / bool() / function_pointer() reaching
\*                      unreachable!() on a value of another tag
\*   "divzero"          a / b with b = 0
\*   "return_underflow" return_stack.pop().unwrap() on an empty stack
\*   "oob"              ops[ip] with ip >= ops.len()
\* ------------------------------------------------------------------------
RunInit == [ip |-> 0, stack |-> <<>>, return_stack |-> <<>>, output |-> <<>>,
            result |-> "running", faulting_op |-> "none"]

Fault(st, kind, op) == [st EXCEPT !.result = kind, !.faulting_op = op]

\* Rust's integer division truncates toward zero
RustDiv(a, b) ==
    IF (a >= 0) = (b >= 0)
    THEN (IF a >= 0 THEN a ELSE -a) \div (IF b >= 0 THEN b ELSE -b)
    ELSE -((IF a >= 0 THEN a ELSE -a) \div (IF b >= 0 THEN b ELSE -b))

\* the operand pushed last taken as the left one
BinaryResult_reversed(op, a, b) ==
    CASE op = "AddInteger" -> VInteger(b + a)
      [] op = "SubtractInteger" -> VInteger(b - a)
      [] op = "MultiplyInteger" -> VInteger(b * a)
      [] op = "DivideInteger" -> VInteger(IF a = 0 THEN 0 ELSE RustDiv(b, a))
      [] op = "LessThanInteger" -> VBool(b < a)
      [] op = "GreaterThanInteger" -> VBool(b > a)
      [] op = "LessThanEqualInteger" -> VBool(b <= a)
      [] op = "GreaterThanEqualInteger" -> VBool(b >= a)

\* execution.rs:51-97 : the result of a binary integer op on a (pushed
\* first) and b (pushed last)
BinaryResult(op, a, b) ==
    CASE op = "AddInteger" -> VInteger(a + b)
      [] op = "SubtractInteger" -> VInteger(a - b)
      [] op = "MultiplyInteger" -> VInteger(a * b)
      [] op = "DivideInteger" -> VInteger(RustDiv(a, b))
      [] op = "LessThanInteger" -> VBool(a < b)
      [] op = "GreaterThanInteger" -> VBool(a > b)
      [] op = "LessThanEqualInteger" -> VBool(a <= b)
      [] op = "GreaterThanEqualInteger" -> VBool(a >= b)

\* execution.rs:51-97 : let b = pop().unwrap().integer(); let a = ...
RunBinary(st, op) ==
    IF Len(st.stack) = 0 THEN Fault(st, "underflow", op)
    ELSE IF Last(st.stack).tag # "Integer" THEN Fault(st, "tag", op)
    ELSE IF Len(st.stack) = 1 THEN Fault(st, "underflow", op)
    ELSE IF st.stack[Len(st.stack) - 1].tag # "Integer" THEN Fault(st, "tag", op)
    ELSE LET b == Last(st.stack).int
             a == st.stack[Len(st.stack) - 1].int
         IN  IF op = "DivideInteger" /\ b = 0 THEN Fault(st, "divzero", op)
             ELSE [st EXCEPT !.stack = Append(DropLast(st.stack, 2),
                                              BinaryResult(op, a, b)),
                             !.ip = st.ip + 1]

\* the comparison of two Type values; execution.rs has no arm for them
EqualTypeOperands(x, y) == x.typ = y.typ

\* Equal and NotEqual with their results exchanged
RunEquality_negated(st, op) ==
    IF Len(st.stack) = 0 THEN Fault(st, "underflow", op)
    ELSE IF Len(st.stack) = 1 THEN Fault(st, "underflow", op)
    ELSE LET y == Last(st.stack)
             x == st.stack[Len(st.stack) - 1]
         IN  IF x.tag # y.tag THEN Fault(st, "tag", op)
             ELSE [st EXCEPT !.stack = Append(DropLast(st.stack, 2),
                                              VBool(IF op = "Equal" THEN x # y
                                                    ELSE x = y)),
                             !.ip = st.ip + 1]

\* execution.rs:99-119 : the first value popped selects the arm, the second
\* must have the same tag
RunEquality(st, op) ==
    IF Len(st.stack) = 0 THEN Fault(st, "underflow", op)
    ELSE IF Len(st.stack) = 1 THEN Fault(st, "underflow", op)
    ELSE LET y == Last(st.stack)
             x == st.stack[Len(st.stack) - 1]
         IN  IF x.tag # y.tag THEN Fault(st, "tag", op)
             ELSE LET eq == CASE y.tag = "Integer" -> x.int = y.int
                              [] y.tag = "Bool" -> x.bool = y.bool
                              [] y.tag = "FunctionPointer" -> x.int = y.int
                              [] y.tag = "Type" -> EqualTypeOperands(x, y)
                  IN  [st EXCEPT !.stack = Append(DropLast(st.stack, 2),
                                                  VBool(IF op = "Equal" THEN eq
                                                        ELSE ~eq)),
                                 !.ip = st.ip + 1]

\* execution.rs:121-124
RunNot(st) ==
    IF Len(st.stack) = 0 THEN Fault(st, "underflow", "Not")
    ELSE IF Last(st.stack).tag # "Bool" THEN Fault(st, "tag", "Not")
    ELSE [st EXCEPT !.stack = Append(Front(st.stack), VBool(~Last(st.stack).bool)),
                    !.ip = st.ip + 1]

\* execution.rs:126-129
RunDup(st) ==
    IF Len(st.stack) = 0 THEN Fault(st, "underflow", "Dup")
    ELSE [st EXCEPT !.stack = Append(st.stack, Last(st.stack)), !.ip = st.ip + 1]

\* execution.rs:131-133
RunDrop(st) ==
    IF Len(st.stack) = 0 THEN Fault(st, "underflow", "Drop")
    ELSE [st EXCEPT !.stack = Front(st.stack), !.ip = st.ip + 1]

\* Swap exchanges the top two values; execution.rs has no arm for it
RunSwap(st) ==
    IF Len(st.stack) < 2 THEN Fault(st, "underflow", "Swap")
    ELSE [st EXCEPT !.stack = DropLast(st.stack, 2)
                                \o <<Last(st.stack), st.stack[Len(st.stack) - 1]>>,
                    !.ip = st.ip + 1]

\* PushType pushes the tagged value; execution.rs has no arm for it
RunPushType(st, op) ==
    [st EXCEPT !.stack = Append(st.stack, VType(op.typ)), !.ip = st.ip + 1]

\* a conditional jump taken on false instead of on true
RunConditonalJump_inverted(st, op) ==
    IF Len(st.stack) = 0 THEN Fault(st, "underflow", "ConditonalJump")
    ELSE IF Last(st.stack).tag # "Bool" THEN Fault(st, "tag", "ConditonalJump")
    ELSE [st EXCEPT !.stack = Front(st.stack),
                    !.ip = IF Last(st.stack).bool THEN st.ip + 1 ELSE op.position]

\* execution.rs:143-152 : jumps only if the popped Bool is true
RunConditonalJump(st, op) ==
    IF Len(st.stack) = 0 THEN Fault(st, "underflow", "ConditonalJump")
    ELSE IF Last(st.stack).tag # "Bool" THEN Fault(st, "tag", "ConditonalJump")
    ELSE [st EXCEPT !.stack = Front(st.stack),
                    !.ip = IF Last(st.stack).bool THEN op.position ELSE st.ip + 1]

\* execution.rs:154-160
RunPrint(st) ==
    IF Len(st.stack) = 0 THEN Fault(st, "underflow", "Print")
    ELSE [st EXCEPT !.stack = Front(st.stack),
                    !.output = Append(st.output, Last(st.stack)),
                    !.ip = st.ip + 1]

\* execution.rs:172-177 : the return address is pushed before the pointer
\* is popped
RunCall(st) ==
    IF Len(st.stack) = 0 THEN Fault(st, "underflow", "Call")
    ELSE IF Last(st.stack).tag # "FunctionPointer" THEN Fault(st, "tag", "Call")
    ELSE [st EXCEPT !.return_stack = Append(st.return_stack, st.ip + 1),
                    !.stack = Front(st.stack),
                    !.ip = Last(st.stack).int]

\* a return to the oldest pending call instead of the latest
RunReturn_oldest_first(st) ==
    IF Len(st.return_stack) = 0 THEN Fault(st, "return_underflow", "Return")
    ELSE [st EXCEPT !.return_stack = Tail(st.return_stack),
                    !.ip = Head(st.return_stack)]

\* execution.rs:179-182
RunReturn(st) ==
    IF Len(st.return_stack) = 0 THEN Fault(st, "return_underflow", "Return")
    ELSE [st EXCEPT !.return_stack = Front(st.return_stack),
                    !.ip = Last(st.return_stack)]

\* execution.rs:135-141
RunJump(st, op) == [st EXCEPT !.ip = op.position]

\* SkipProc stepped over as if it were a no-op: the ip falls into the body
RunSkipProc_fallthrough(st, op) == [st EXCEPT !.ip = st.ip + 1]

\* execution.rs:162-170 : the body is jumped over
RunSkipProc(st, op) == [st EXCEPT !.ip = op.position]

\* execution.rs:41-185 : one iteration of the loop.  ops is 1-based here, so
\* the op at ip is ops[ip + 1].
RunStep(ops, st) ==
    IF st.ip >= Len(ops) THEN Fault(st, "oob", "none")
    ELSE LET op == ops[st.ip + 1]
         IN  CASE op.op = "Exit" -> [st EXCEPT !.result = "exit"]
               [] op.op = "PushFunctionPointer" ->
                    [st EXCEPT !.stack = Append(st.stack, VFunctionPointer(op.value)),
                               !.ip = st.ip + 1]
               [] op.op = "PushInteger" ->
                    [st EXCEPT !.stack = Append(st.stack, VInteger(op.value)),
                               !.ip = st.ip + 1]
               [] op.op = "PushType" -> RunPushType(st, op)
               [] op.op \in ArithmeticOps \cup RelationalOps -> RunBinary(st, op.op)
               [] op.op \in EqualityOps -> RunEquality(st, op.op)
               [] op.op = "Not" -> RunNot(st)
               [] op.op = "Dup" -> RunDup(st)
               [] op.op = "Drop" -> RunDrop(st)
               [] op.op = "Swap" -> RunSwap(st)
               [] op.op = "Jump" -> RunJump(st, op)
               [] op.op = "SkipProc" -> RunSkipProc(st, op)
               [] op.op = "ConditonalJump" -> RunConditonalJump(st, op)
               [] op.op = "Print" -> RunPrint(st)
               [] op.op = "Call" -> RunCall(st)
               [] op.op = "Return" -> RunReturn(st)

\* run_ops to completion, as compile_ops calls it on a signature sub-program
\* (ops.rs:466, ops.rs:514).  A sub-program still running when the fuel is
\* spent ends as "diverged": the compiler would not return.
RECURSIVE RunLoop(_, _, _)
RunLoop(ops, st, fuel) ==
    IF st.result # "running" THEN st
    ELSE IF fuel = 0 THEN [st EXCEPT !.result = "diverged"]
    ELSE RunLoop(ops, RunStep(ops, st), fuel - 1)

run_ops(ops) == RunLoop(ops, RunInit, SigFuel)

\* ------------------------------------------------------------------------
\* ops.rs:256-273 : BlockType.  One record shape: position is If.position,
\* Else.skip_position, While.position, WhileBody.begin_position and
\* Proc.jump_past_position; end_jump_position is used by WhileBody alone.
\* ------------------------------------------------------------------------
Block(type, position, end_jump_position) ==
    [type |-> type, position |-> position, end_jump_position |-> end_jump_position]

\* ------------------------------------------------------------------------
\* ops.rs:275-663 : compile_ops.  The state is the tokenizer, the op list,
\* block_stack, scopes and the result: "running", "Ok", "Err" (with the
\* error's kind and location), "Panic" (an unwrap() on None) or "Diverged"
\* (a signature sub-program that does not halt).
\* ------------------------------------------------------------------------
CompileInit(tz) ==
    [tz |-> tz, ops |-> <<>>, block_stack |-> <<>>, scopes |-> << <<>> >>,
     result |-> "running", err_kind |-> "", err_location |-> 0]

Err(c, kind, location) ==
    [c EXCEPT !.result = "Err", !.err_kind = kind, !.err_location = location]

Push(c, op) == [c EXCEPT !.ops = Append(@, op)]

\* tokens that compile to exactly one op (ops.rs:358, 381, 417-427, 610-652)
SimpleKinds ==
    {"Print", "Call", "Dup", "Drop", "Swap", "Plus", "Minus", "Asterisk", "Slash",
     "LessThan", "GreaterThan", "LessThanEqual", "GreaterThanEqual", "EqualEqual",
     "NotEqual", "Not"}

SimpleOp ==
    [kind \in SimpleKinds |->
        CASE kind = "Plus" -> "AddInteger"
          [] kind = "Minus" -> "SubtractInteger"
          [] kind = "Asterisk" -> "MultiplyInteger"
          [] kind = "Slash" -> "DivideInteger"
          [] kind = "LessThan" -> "LessThanInteger"
          [] kind = "GreaterThan" -> "GreaterThanInteger"
          [] kind = "LessThanEqual" -> "LessThanEqualInteger"
          [] kind = "GreaterThanEqual" -> "GreaterThanEqualInteger"
          [] kind = "EqualEqual" -> "Equal"
          [] OTHER -> kind]

\* kinds with no arm of their own (ops.rs:654-659)
UnexpectedKinds ==
    {"Else", "OpenParenthesis", "CloseParenthesis", "RightArrow", "Memory", "Equal"}

\* an integer literal compiled to a push of zero
CompileInteger_zero(c, token) == Push(c, OpPushInteger(token.location, 0))

\* ops.rs:285-291
CompileInteger(c, token) == Push(c, OpPushInteger(token.location, token.int))

\* the earliest declaration of name in one scope, or -1
LookupScope_earliest(scope, name, i) ==
    IF \E j \in 1..i : scope[j].name = name
    THEN scope[CHOOSE j \in 1..i :
                  scope[j].name = name /\ \A m \in 1..(j - 1) : scope[m].name # name].position
    ELSE -1

\* ops.rs:325-343 : the latest declaration of name in one scope, or -1
RECURSIVE LookupScope(_, _, _)
LookupScope(scope, name, i) ==
    IF i = 0 THEN -1
    ELSE IF scope[i].name = name THEN scope[i].position
    ELSE LookupScope(scope, name, i - 1)

\* ops.rs:324-348 : scopes searched innermost first; -1 when not found
RECURSIVE Lookup(_, _, _)
Lookup(scopes, name, i) ==
    IF i = 0 THEN -1
    ELSE LET position == LookupScope(scopes[i], name, Len(scopes[i]))
         IN  IF position # -1 THEN position ELSE Lookup(scopes, name, i - 1)

\* a reference compiled to the index of the SkipProc itself
CompileName_points_at_skip(c, token) ==
    LET name == token.str
    IN  CASE name = "int" -> Push(c, OpPushType(token.location, TypeInteger))
          [] name = "bool" -> Push(c, OpPushType(token.location, TypeBool))
          [] name = "type" -> Push(c, OpPushType(token.location, TypeType))
          [] OTHER ->
               LET position == Lookup(c.scopes, name, Len(c.scopes))
               IN  IF position = -1 THEN Err(c, "Name", token.location)
                   ELSE Push(c, OpPushFunctionPointer(token.location, position))

\* ops.rs:293-356
CompileName(c, token) ==
    LET name == token.str
    IN  CASE name = "int" -> Push(c, OpPushType(token.location, TypeInteger))
          [] name = "bool" -> Push(c, OpPushType(token.location, TypeBool))
          [] name = "type" -> Push(c, OpPushType(token.location, TypeType))
          [] OTHER ->
               LET position == Lookup(c.scopes, name, Len(c.scopes))
               IN  IF position = -1 THEN Err(c, "Name", token.location)
                   ELSE IF c.ops[position + 1].op # "SkipProc"
                        THEN [c EXCEPT !.result = "Panic"]
                   ELSE Push(c, OpPushFunctionPointer(token.location, position + 1))

\* the result of a ?-propagated expect_token: the state c after it
Expect(c, kind) ==
    LET e == expect_token(c.tz, kind)
    IN  IF e.ok THEN [c EXCEPT !.tz = e.tz]
        ELSE Err(c, "Syntax", e.err_location)

\* ops.rs:362-375
CompileIf(c, token) ==
    LET c1 == Push(c, Op("Not", token.location))
        c2 == [c1 EXCEPT !.block_stack = Append(@, Block("If", Len(c1.ops), 0)),
                         !.scopes = Append(@, <<>>)]
        c3 == Push(c2, OpConditonalJump(token.location, 0))
    IN  Expect(c3, "OpenBrace")

\* a while that records the position one past the start of its condition
CompileWhile_one_later(c, token) ==
    [c EXCEPT !.block_stack = Append(@, Block("While", Len(c.ops) + 1, 0))]

\* ops.rs:377-379
CompileWhile(c, token) ==
    [c EXCEPT !.block_stack = Append(@, Block("While", Len(c.ops), 0))]

\* ops.rs:385-415
CompileOpenBrace(c, token) ==
    IF Len(c.block_stack) > 0 /\ Last(c.block_stack).type = "While"
    THEN LET position == Last(c.block_stack).position
             c1 == Push([c EXCEPT !.block_stack = Front(@)],
                        Op("Not", token.location))
             c2 == [c1 EXCEPT !.block_stack =
                                 Append(@, Block("WhileBody", position, Len(c1.ops)))]
             c3 == Push(c2, OpConditonalJump(token.location, 0))
         IN  [c3 EXCEPT !.scopes = Append(@, <<>>)]
    ELSE Err(c, "Syntax", token.location)

\* ops.rs:439-449 (and 487-497) : the tokens up to the parenthesis that
\* closes the span, or up to the end of the file
RECURSIVE CollectSpan(_, _, _)
CollectSpan(tz, depth, span) ==
    IF (depth # 0 \/ peek_kind(tz) # "CloseParenthesis") /\ peek_kind(tz) # "EndOfFile"
    THEN LET r == next_token(tz)
             d == CASE r.token.kind = "OpenParenthesis" -> depth + 1
                    [] r.token.kind = "CloseParenthesis" -> depth - 1
                    [] OTHER -> depth
         IN  CollectSpan(r.tz, d, Append(span, r.token))
    ELSE [tz |-> tz, span |-> span]

\* ops.rs:467-477 (and 515-524) : every value left by the sub-program must
\* be a Type value
AllTypes(stack) == \A i \in 1..Len(stack) : stack[i].tag = "Type"

Harvest(stack) == [i \in 1..Len(stack) |-> stack[i].typ]

RECURSIVE CompileLoop(_)

Failed(c) == [c |-> c, types |-> <<>>]

\* ops.rs:466-477 (and 514-524) : the sub-program's final stack is harvested
SigHarvest(close, open_location, ran) ==
    CASE ran.result = "diverged" -> Failed([close EXCEPT !.result = "Diverged"])
      [] ran.result = "exit" /\ AllTypes(ran.stack) ->
           [c |-> close, types |-> Harvest(ran.stack)]
      [] ran.result = "exit" -> Failed(Err(close, "Signature", open_location))
      [] OTHER -> Failed([close EXCEPT !.result = "Panic"])

\* ops.rs:461-466 (and 509-514) : compile_ops(...)? ; push Exit ; run_ops
SigRun(close, open_location, sub) ==
    CASE sub.result = "Ok" ->
           SigHarvest(close, open_location, run_ops(Append(sub.ops, Op("Exit", 0))))
      [] sub.result = "Err" -> Failed(Err(close, sub.err_kind, sub.err_location))
      [] OTHER -> Failed([close EXCEPT !.result = sub.result])

\* ops.rs:450-460 (and 498-508) : expect ")" and compile the span with a
\* fresh compile_ops over a TokenArray
SigCompile(close, open_location, span) ==
    IF close.result # "running" THEN Failed(close)
    ELSE SigRun(close, open_location, CompileLoop(CompileInit(TokenArray(span))))

\* ops.rs:438-451 (and 485-499)
SigCollect(open, open_location, col) ==
    SigCompile(Expect([open EXCEPT !.tz = col.tz], "CloseParenthesis"),
               open_location, col.span)

\* ops.rs:436-438 (and 483-486)
SigOpen(open, open_location) ==
    IF open.result # "running" THEN Failed(open)
    ELSE SigCollect(open, open_location, CollectSpan(open.tz, 0, <<>>))

\* ops.rs:436-477 (and 483-524) : "(" span ")" is sliced, compiled by a
\* fresh compile_ops over a TokenArray, terminated with Exit and run.  The
\* result is the compile state after it (failed, or with the tokenizer
\* advanced) and the types the sub-program left.
SignatureSpan(c) ==
    SigOpen(Expect(c, "OpenParenthesis"),
            expect_token(c.tz, "OpenParenthesis").token.location)

\* ops.rs:527-543 : a named proc opens a block, declares its name in the
\* current scope and emits SkipProc
OpenProc(b, token, name, parameters, return_types) ==
    Push([b EXCEPT
            !.block_stack = Append(@, Block("Proc", Len(b.ops), 0)),
            !.scopes = Append(Append(Front(b.scopes),
                                     Append(Last(b.scopes),
                                            [name |-> name, position |-> Len(b.ops)])),
                              <<>>)],
         OpSkipProc(token.location, 0, parameters, return_types))

\* ops.rs:527-528 : tokenizer.expect_token(TokenKind::OpenBrace)?
ProcBrace(b, token, name, parameters, return_types) ==
    IF b.result # "running" THEN b
    ELSE OpenProc(b, token, name, parameters, return_types)

\* ops.rs:527-552 : a named proc opens its body; an anonymous one pushes a
\* procedure type
CompileProcTail(c, token, named, name, parameters, return_types) ==
    IF named
    THEN ProcBrace(Expect(c, "OpenBrace"), token, name, parameters, return_types)
    ELSE Push(c, OpPushType(token.location, Procedure(parameters, return_types)))

\* ops.rs:481-525 : the return list after "->"
ProcReturns(rts, token, named, name, parameters) ==
    IF rts.c.result # "running" THEN rts.c
    ELSE CompileProcTail(rts.c, token, named, name, parameters, rts.types)

\* ops.rs:479-481 : the return list is optional
ProcAfterParameters(ps, token, named, name) ==
    IF ps.c.result # "running" THEN ps.c
    ELSE IF peek_kind(ps.c.tz) = "RightArrow"
    THEN ProcReturns(SignatureSpan(Expect(ps.c, "RightArrow")), token, named, name,
                     ps.types)
    ELSE CompileProcTail(ps.c, token, named, name, ps.types, <<>>)

\* ops.rs:430-437 : the name is optional
ProcName(c1, token, named, name) ==
    IF c1.result # "running" THEN c1
    ELSE ProcAfterParameters(SignatureSpan(c1), token, named, name)

\* ops.rs:429-553
CompileProc(c, token) ==
    IF peek_kind(c.tz) # "OpenParenthesis"
    THEN ProcName(Expect(c, "Name"), token, TRUE, expect_token(c.tz, "Name").token.str)
    ELSE ProcName(c, token, FALSE, "")

\* the jump patched to one past its target
Patch_one_past(c, position, target) ==
    [c EXCEPT !.ops[position + 1].position = target + 1]

\* ops.rs:573, 577, 597, 604 : *ops[position].get_..._location_mut() = target
Patch(c, position, target) == [c EXCEPT !.ops[position + 1].position = target]

\* the If's jump aimed at the Jump that skips the else block
ElseBrace_onto_jump(c3, block) ==
    IF c3.result # "running" THEN c3 ELSE Patch(c3, block.position, Len(c3.ops) - 1)

\* ops.rs:570-573 : expect "{" after else, then patch the If's jump
ElseBrace(c3, block) ==
    IF c3.result # "running" THEN c3 ELSE Patch(c3, block.position, Len(c3.ops))

\* the else block opened without a scope of its own
OpenElse_shares_scope(c, else_token) ==
    Push([c EXCEPT !.block_stack = Append(@, Block("Else", Len(c.ops), 0))],
         OpJump(else_token.location, 0))

\* ops.rs:561-569
OpenElse(c, else_token) ==
    Push([c EXCEPT !.block_stack = Append(@, Block("Else", Len(c.ops), 0)),
                   !.scopes = Append(@, <<>>)],
         OpJump(else_token.location, 0))

\* ops.rs:559-574
CloseIf(c, token, block) ==
    IF peek_kind(c.tz) = "Else"
    THEN ElseBrace(Expect(OpenElse([c EXCEPT !.tz = next_token(c.tz).tz],
                                   next_token(c.tz).token),
                          "OpenBrace"),
                   block)
    ELSE Patch(c, block.position, Len(c.ops))

\* ops.rs:576-578
CloseElse(c, token, block) == Patch(c, block.position, Len(c.ops))

\* the back jump aimed at the exit test instead of the start of the condition
CloseWhileBody_skips_condition(c, token, block) ==
    LET c1 == Push(c, OpJump(token.location, block.end_jump_position))
    IN  Patch(c1, block.end_jump_position, Len(c1.ops))

\* ops.rs:588-598
CloseWhileBody(c, token, block) ==
    LET c1 == Push(c, OpJump(token.location, block.position))
    IN  Patch(c1, block.end_jump_position, Len(c1.ops))

\* a SkipProc aimed at the Return that closes the body
CloseProc_onto_return(c, token, block) ==
    LET c1 == Push(c, Op("Return", token.location))
    IN  Patch(c1, block.position, Len(c1.ops) - 1)

\* ops.rs:600-606
CloseProc(c, token, block) ==
    LET c1 == Push(c, Op("Return", token.location))
    IN  Patch(c1, block.position, Len(c1.ops))

\* ops.rs:558-607 : the arm of the block that was popped
CloseBlock(c1, token, block) ==
    CASE block.type = "If" -> CloseIf(c1, token, block)
      [] block.type = "Else" -> CloseElse(c1, token, block)
      [] block.type = "While" -> Err(c1, "Syntax", token.location)
      [] block.type = "WhileBody" -> CloseWhileBody(c1, token, block)
      [] block.type = "Proc" -> CloseProc(c1, token, block)

\* ops.rs:555-608
CompileCloseBrace(c, token) ==
    IF Len(c.block_stack) = 0 \/ Len(c.scopes) = 0 THEN [c EXCEPT !.result = "Panic"]
    ELSE CloseBlock([c EXCEPT !.block_stack = Front(@), !.scopes = Front(@)],
                    token, Last(c.block_stack))

\* ops.rs:282-660 : the arm of the token that was read
CompileToken(c0, token) ==
    CASE token.kind = "EndOfFile" -> [c0 EXCEPT !.result = "Ok"]
      [] token.kind = "Integer" -> CompileInteger(c0, token)
      [] token.kind = "Name" -> CompileName(c0, token)
      [] token.kind \in SimpleKinds ->
           Push(c0, Op(SimpleOp[token.kind], token.location))
      [] token.kind = "If" -> CompileIf(c0, token)
      [] token.kind = "While" -> CompileWhile(c0, token)
      [] token.kind = "OpenBrace" -> CompileOpenBrace(c0, token)
      [] token.kind = "Proc" -> CompileProc(c0, token)
      [] token.kind = "CloseBrace" -> CompileCloseBrace(c0, token)
      [] OTHER -> Err(c0, "Syntax", token.location)

\* ops.rs:280-661 : one iteration of the loop: the next token is consumed
\* and its arm runs
CompileStep(c) ==
    CompileToken([c EXCEPT !.tz = next_token(c.tz).tz], next_token(c.tz).token)

\* ops.rs:275-663 : compile_ops to completion
CompileLoop(c) == IF c.result # "running" THEN c ELSE CompileLoop(CompileStep(c))

compile_ops(tz) == CompileLoop(CompileInit(tz))

\* ------------------------------------------------------------------------
\* type_checking.rs:5-51 : expect_type_count, expect_types over a symbolic
\* stack of [typ, location] pairs
\* ------------------------------------------------------------------------
Sym(typ, location) == [typ |-> typ, location |-> location]

TypesOf(stack) == [i \in 1..Len(stack) |-> stack[i].typ]

\* type_checking.rs:5-22
expect_type_count(stack, count) == Len(stack) >= count

\* type_checking.rs:24-51 : ok iff the top Len(types) entries are types, in
\* order; the stack returned has them popped
expect_types(stack, types) ==
    IF ~expect_type_count(stack, Len(types)) THEN [ok |-> FALSE, stack |-> stack]
    ELSE IF \E index \in 1..Len(types) :
                stack[Len(stack) - Len(types) + index].typ # types[index]
    THEN [ok |-> FALSE, stack |-> stack]
    ELSE [ok |-> TRUE, stack |-> DropLast(stack, Len(types))]

\* ------------------------------------------------------------------------
\* type_checking.rs:53-66 : JumpType, Context
\* ------------------------------------------------------------------------
NoProcedure == [some |-> FALSE, typ |-> TypeType]

SomeProcedure(typ) == [some |-> TRUE, typ |-> typ]

Context(ip, stack, condtional_jump_list, procedure_info) ==
    [ip |-> ip, stack |-> stack, condtional_jump_list |-> condtional_jump_list,
     procedure_info |-> procedure_info]

\* ------------------------------------------------------------------------
\* type_checking.rs:68-306 : type_check_ops.  The state is the work-stack
\* of contexts and the result: "running", "Ok", "TypeError", "ICE" (the
\* Internal Compiler Error of line 195) or "Panic" (an index out of bounds,
\* an unwrap() on None, an unreachable!()).
\* ------------------------------------------------------------------------
CheckInit ==
    [contexts |-> <<Context(0, <<>>, <<>>, NoProcedure)>>, result |-> "running",
     err_location |-> 0]

TypeError(k, location) ==
    [k EXCEPT !.result = "TypeError", !.err_location = location]

\* the context at work: contexts.last_mut().unwrap()
Top(k) == Last(k.contexts)

SetTop(k, context) == [k EXCEPT !.contexts[Len(k.contexts)] = context]

\* the fall out of the match: contexts.last_mut().unwrap().ip += 1
\* (type_checking.rs:302), with the stack the arm left
Advance(k, stack) == SetTop(k, [Top(k) EXCEPT !.stack = stack, !.ip = @ + 1])

\* contexts.pop(), and the loop's exit once the work-stack is empty
\* (type_checking.rs:77, 88, 297)
PopContext(k) ==
    LET rest == Front(k.contexts)
    IN  [k EXCEPT !.contexts = rest,
                  !.result = IF Len(rest) = 0 THEN "Ok" ELSE "running"]

\* type_checking.rs:80-90
CheckExit(k, op) ==
    IF Len(Top(k).stack) > 0 THEN TypeError(k, Last(Top(k).stack).location)
    ELSE PopContext(k)

\* type_checking.rs:92-111
CheckPushFunctionPointer(ops, k, op) ==
    IF op.value < 1 \/ op.value > Len(ops) THEN [k EXCEPT !.result = "Panic"]
    ELSE IF ops[op.value].op # "SkipProc" THEN [k EXCEPT !.result = "Panic"]
    ELSE Advance(k, Append(Top(k).stack,
                           Sym(Procedure(ops[op.value].parameters,
                                         ops[op.value].return_types),
                               op.location)))

\* type_checking.rs:113-115
CheckPushInteger(k, op) ==
    Advance(k, Append(Top(k).stack, Sym(TypeInteger, op.location)))

\* PushType pushes a value of type Type; type_checking.rs has no arm for it
CheckPushType(k, op) ==
    Advance(k, Append(Top(k).stack, Sym(TypeType, op.location)))

\* a relational op typed as its operands
CheckBinary_integer_result(k, op) ==
    LET e == expect_types(Top(k).stack, <<TypeInteger, TypeInteger>>)
    IN  IF ~e.ok THEN TypeError(k, op.location)
        ELSE Advance(k, Append(e.stack, Sym(TypeInteger, op.location)))

\* type_checking.rs:117-139
CheckBinary(k, op) ==
    LET e == expect_types(Top(k).stack, <<TypeInteger, TypeInteger>>)
        result == IF op.op \in ArithmeticOps THEN TypeInteger ELSE TypeBool
    IN  IF ~e.ok THEN TypeError(k, op.location)
        ELSE Advance(k, Append(e.stack, Sym(result, op.location)))

\* type_checking.rs:141-146
CheckEquality(k, op) ==
    LET stack == Top(k).stack
    IN  IF ~expect_type_count(stack, 2) THEN TypeError(k, op.location)
        ELSE LET typ == stack[Len(stack) - 1].typ
                 e == expect_types(stack, <<typ, typ>>)
             IN  IF ~e.ok THEN TypeError(k, op.location)
                 ELSE Advance(k, Append(e.stack, Sym(TypeBool, op.location)))

\* type_checking.rs:148-151
CheckNot(k, op) ==
    LET e == expect_types(Top(k).stack, <<TypeBool>>)
    IN  IF ~e.ok THEN TypeError(k, op.location)
        ELSE Advance(k, Append(e.stack, Sym(TypeBool, op.location)))

\* type_checking.rs:153-157
CheckDup(k, op) ==
    LET stack == Top(k).stack
    IN  IF ~expect_type_count(stack, 1) THEN TypeError(k, op.location)
        ELSE Advance(k, Append(stack, Sym(Last(stack).typ, op.location)))

\* Drop accepted on an empty stack
CheckDrop_unchecked(k, op) ==
    LET stack == Top(k).stack
    IN  Advance(k, IF stack = <<>> THEN <<>> ELSE Front(stack))

\* type_checking.rs:159-162
CheckDrop(k, op) ==
    LET stack == Top(k).stack
    IN  IF ~expect_type_count(stack, 1) THEN TypeError(k, op.location)
        ELSE Advance(k, Front(stack))

\* type_checking.rs:164-170
CheckSwap(k, op) ==
    LET stack == Top(k).stack
    IN  IF ~expect_type_count(stack, 2) THEN TypeError(k, op.location)
        ELSE LET a == Last(stack).typ
                 b == stack[Len(stack) - 1].typ
             IN  Advance(k, DropLast(stack, 2)
                              \o <<Sym(a, op.location), Sym(b, op.location)>>)

\* type_checking.rs:172-178
CheckJump(k, op) == SetTop(k, [Top(k) EXCEPT !.ip = op.position])

\* type_checking.rs:183-186 : the index of the entry for ip, or 0
JumpListPosition(list, ip) ==
    IF \E i \in 1..Len(list) : list[i].pos = ip
    THEN CHOOSE i \in 1..Len(list) :
            list[i].pos = ip /\ \A j \in 1..(i - 1) : list[j].pos # ip
    ELSE 0

\* a sibling that starts from the stack with the condition still on it and
\* from an empty branch table
ForkSibling_fresh(context, stack) ==
    Context(context.ip + 1, context.stack,
            <<[pos |-> context.ip, jump_type |-> "Fallthrough"]>>,
            context.procedure_info)

\* type_checking.rs:199-215 : the sibling that takes the fallthrough side
ForkSibling(context, stack) ==
    Context(context.ip + 1, stack,
            Append(context.condtional_jump_list,
                   [pos |-> context.ip, jump_type |-> "Fallthrough"]),
            context.procedure_info)

\* a first visit that leaves the jump side on top of the work-stack and the
\* fallthrough sibling beneath it
CheckConditonalJump_jump_first(k, op) ==
    LET context == Top(k)
        e == expect_types(context.stack, <<TypeBool>>)
        pos == JumpListPosition(context.condtional_jump_list, context.ip)
    IN  IF ~e.ok THEN TypeError(k, op.location)
        ELSE IF pos # 0
        THEN LET jump_type == context.condtional_jump_list[pos].jump_type
             IN  IF jump_type = "Both"
                 THEN [k EXCEPT !.result = "ICE", !.err_location = op.location]
                 ELSE SetTop(k, [context EXCEPT
                        !.stack = e.stack,
                        !.ip = IF jump_type = "Jump" THEN context.ip + 1
                               ELSE op.position,
                        !.condtional_jump_list[pos].jump_type = "Both"])
        ELSE LET new_context == ForkSibling(context, e.stack)
                 current == [context EXCEPT
                        !.stack = e.stack,
                        !.condtional_jump_list =
                            Append(@, [pos |-> context.ip, jump_type |-> "Jump"]),
                        !.ip = op.position]
             IN  [k EXCEPT !.contexts = Append(Append(Front(@), new_context), current)]

\* a visit to a site already marked Both that goes on at the next op
CheckConditonalJump_both_continues(k, op) ==
    LET context == Top(k)
        e == expect_types(context.stack, <<TypeBool>>)
        pos == JumpListPosition(context.condtional_jump_list, context.ip)
    IN  IF ~e.ok THEN TypeError(k, op.location)
        ELSE IF pos # 0
        THEN LET jump_type == context.condtional_jump_list[pos].jump_type
             IN  SetTop(k, [context EXCEPT
                        !.stack = e.stack,
                        !.ip = IF jump_type = "Fallthrough" THEN op.position
                               ELSE context.ip + 1,
                        !.condtional_jump_list[pos].jump_type = "Both"])
        ELSE LET new_context == ForkSibling(context, e.stack)
                 current == [context EXCEPT
                        !.stack = e.stack,
                        !.condtional_jump_list =
                            Append(@, [pos |-> context.ip, jump_type |-> "Jump"]),
                        !.ip = op.position]
             IN  [k EXCEPT !.contexts = Append(Append(Front(@), current), new_context)]

\* a revisit that takes again the side the context took before
CheckConditonalJump_same_side(k, op) ==
    LET context == Top(k)
        e == expect_types(context.stack, <<TypeBool>>)
        pos == JumpListPosition(context.condtional_jump_list, context.ip)
    IN  IF ~e.ok THEN TypeError(k, op.location)
        ELSE IF pos # 0
        THEN LET jump_type == context.condtional_jump_list[pos].jump_type
             IN  IF jump_type = "Both"
                 THEN [k EXCEPT !.result = "ICE", !.err_location = op.location]
                 ELSE SetTop(k, [context EXCEPT
                        !.stack = e.stack,
                        !.ip = IF jump_type = "Jump" THEN op.position
                               ELSE context.ip + 1,
                        !.condtional_jump_list[pos].jump_type = "Both"])
        ELSE LET new_context == ForkSibling(context, e.stack)
                 current == [context EXCEPT
                        !.stack = e.stack,
                        !.condtional_jump_list =
                            Append(@, [pos |-> context.ip, jump_type |-> "Jump"]),
                        !.ip = op.position]
             IN  [k EXCEPT !.contexts = Append(Append(Front(@), current), new_context)]

\* type_checking.rs:180-218
CheckConditonalJump(k, op) ==
    LET context == Top(k)
        e == expect_types(context.stack, <<TypeBool>>)
        pos == JumpListPosition(context.condtional_jump_list, context.ip)
    IN  IF ~e.ok THEN TypeError(k, op.location)
        ELSE IF pos # 0
        THEN LET jump_type == context.condtional_jump_list[pos].jump_type
             IN  IF jump_type = "Both"
                 THEN [k EXCEPT !.result = "ICE", !.err_location = op.location]
                 ELSE SetTop(k, [context EXCEPT
                        !.stack = e.stack,
                        !.ip = IF jump_type = "Jump" THEN context.ip + 1
                               ELSE op.position,
                        !.condtional_jump_list[pos].jump_type = "Both"])
        ELSE LET new_context == ForkSibling(context, e.stack)
                 current == [context EXCEPT
                        !.stack = e.stack,
                        !.condtional_jump_list =
                            Append(@, [pos |-> context.ip, jump_type |-> "Jump"]),
                        !.ip = op.position]
             IN  [k EXCEPT !.contexts = Append(Append(Front(@), current), new_context)]

\* type_checking.rs:220-224
CheckPrint(k, op) ==
    LET stack == Top(k).stack
    IN  IF ~expect_type_count(stack, 1) THEN TypeError(k, op.location)
        ELSE Advance(k, Front(stack))

\* a body context that inherits the stack and the branch table of the
\* context that reached the SkipProc
BodyContext_inherits(context, op) ==
    Context(context.ip + 1, context.stack, context.condtional_jump_list,
            SomeProcedure(Procedure(op.parameters, op.return_types)))

\* type_checking.rs:237-247 : the context that checks a procedure's body
BodyContext(context, op) ==
    Context(context.ip + 1,
            [i \in 1..Len(op.parameters) |-> Sym(op.parameters[i], op.location)],
            <<>>,
            SomeProcedure(Procedure(op.parameters, op.return_types)))

\* type_checking.rs:226-254
CheckSkipProc(k, op) ==
    LET context == Top(k)
        new_context == BodyContext(context, op)
        current == [context EXCEPT !.ip = op.position]
    IN  [k EXCEPT !.contexts = Append(Append(Front(@), current), new_context)]

\* a Call that checks the parameters and leaves them on the stack
CheckCall_keeps_parameters(k, op) ==
    LET stack == Top(k).stack
    IN  IF ~expect_type_count(stack, 1) THEN TypeError(k, op.location)
        ELSE LET typ == Last(stack).typ
             IN  IF typ.k # "Procedure" THEN TypeError(k, Last(stack).location)
                 ELSE LET e == expect_types(Front(stack), typ.parameters)
                      IN  IF ~e.ok THEN TypeError(k, op.location)
                          ELSE Advance(k, Front(stack) \o
                                 [i \in 1..Len(typ.return_types) |->
                                    Sym(typ.return_types[i], op.location)])

\* a Call that also starts a context for the callee, as SkipProc does
CheckCall_spawns_context(k, op) ==
    LET stack == Top(k).stack
    IN  IF ~expect_type_count(stack, 1) THEN TypeError(k, op.location)
        ELSE LET typ == Last(stack).typ
             IN  IF typ.k # "Procedure" THEN TypeError(k, Last(stack).location)
                 ELSE LET e == expect_types(Front(stack), typ.parameters)
                          after == Advance(k, e.stack \o
                                     [i \in 1..Len(typ.return_types) |->
                                        Sym(typ.return_types[i], op.location)])
                          callee == Context(Top(k).ip + 1,
                                            [i \in 1..Len(typ.parameters) |->
                                               Sym(typ.parameters[i], op.location)],
                                            <<>>, SomeProcedure(typ))
                      IN  IF ~e.ok THEN TypeError(k, op.location)
                          ELSE [after EXCEPT !.contexts = Append(@, callee)]

\* type_checking.rs:256-276
CheckCall(k, op) ==
    LET stack == Top(k).stack
    IN  IF ~expect_type_count(stack, 1) THEN TypeError(k, op.location)
        ELSE LET typ == Last(stack).typ
             IN  IF typ.k # "Procedure" THEN TypeError(k, Last(stack).location)
                 ELSE LET e == expect_types(Front(stack), typ.parameters)
                      IN  IF ~e.ok THEN TypeError(k, op.location)
                          ELSE Advance(k, e.stack \o
                                 [i \in 1..Len(typ.return_types) |->
                                    Sym(typ.return_types[i], op.location)])

\* a Return that is content with the return types on top of the stack
CheckReturn_allows_rest(k, op) ==
    LET context == Top(k)
    IN  IF ~context.procedure_info.some THEN [k EXCEPT !.result = "Panic"]
        ELSE LET e == expect_types(context.stack,
                                   context.procedure_info.typ.return_types)
             IN  IF ~e.ok THEN TypeError(k, op.location)
                 ELSE PopContext(k)

\* type_checking.rs:278-299
CheckReturn(k, op) ==
    LET context == Top(k)
    IN  IF ~context.procedure_info.some THEN [k EXCEPT !.result = "Panic"]
        ELSE LET e == expect_types(context.stack,
                                   context.procedure_info.typ.return_types)
             IN  IF ~e.ok THEN TypeError(k, op.location)
                 ELSE IF Len(e.stack) > 0 THEN TypeError(k, Last(e.stack).location)
                 ELSE PopContext(k)

\* type_checking.rs:77-303 : one iteration of the loop
CheckStep(ops, k) ==
    IF Top(k).ip >= Len(ops) THEN [k EXCEPT !.result = "Panic"]
    ELSE LET op == ops[Top(k).ip + 1]
         IN  CASE op.op = "Exit" -> CheckExit(k, op)
               [] op.op = "PushFunctionPointer" -> CheckPushFunctionPointer(ops, k, op)
               [] op.op = "PushInteger" -> CheckPushInteger(k, op)
               [] op.op = "PushType" -> CheckPushType(k, op)
               [] op.op \in ArithmeticOps \cup RelationalOps -> CheckBinary(k, op)
               [] op.op \in EqualityOps -> CheckEquality(k, op)
               [] op.op = "Not" -> CheckNot(k, op)
               [] op.op = "Dup" -> CheckDup(k, op)
               [] op.op = "Drop" -> CheckDrop(k, op)
               [] op.op = "Swap" -> CheckSwap(k, op)
               [] op.op = "Jump" -> CheckJump(k, op)
               [] op.op = "ConditonalJump" -> CheckConditonalJump(k, op)
               [] op.op = "Print" -> CheckPrint(k, op)
               [] op.op = "SkipProc" -> CheckSkipProc(k, op)
               [] op.op = "Call" -> CheckCall(k, op)
               [] op.op = "Return" -> CheckReturn(k, op)

\* ------------------------------------------------------------------------
\* The sources the pipeline is run on
\* ------------------------------------------------------------------------
\* every token kind of token.rs, with two integer literals, a built-in type
\* name and a free identifier
Alphabet ==
    {I(0), I(1), N("int"), N("f")}
    \cup {K(kind) : kind \in SimpleKinds \cup UnexpectedKinds}
    \cup {K("If"), K("While"), K("Proc"), K("OpenBrace"), K("CloseBrace")}

\* the exhaustive family: every source of at most MaxLen tokens
ShortSources == SeqsUpTo(Alphabet, MaxLen)

\* `0 0 ==` (true) and `0 1 ==` (false)
Conds == {<<I(0), I(0), K("EqualEqual")>>, <<I(0), I(1), K("EqualEqual")>>}

IfS(c, b) == c \o <<K("If"), K("OpenBrace")>> \o b \o <<K("CloseBrace")>>

IfElseS(c, b1, b2) ==
    c \o <<K("If"), K("OpenBrace")>> \o b1
      \o <<K("CloseBrace"), K("Else"), K("OpenBrace")>> \o b2 \o <<K("CloseBrace")>>

\* a counted loop that runs its body once: `0 while dup 1 < { b 1 + } drop`
WhileS(b) ==
    <<I(0), K("While"), K("Dup"), I(1), K("LessThan"), K("OpenBrace")>> \o b
      \o <<I(1), K("Plus"), K("CloseBrace"), K("Drop")>>

\* one construct around a body
Stmts(bodies) ==
    {IfS(c, b) : c \in Conds, b \in bodies}
    \cup {IfElseS(c, b, <<>>) : c \in Conds, b \in bodies}
    \cup {IfElseS(c, <<>>, b) : c \in Conds, b \in bodies}
    \cup {WhileS(b) : b \in bodies}

\* the structured family: if / if-else / while nested to depth d, and two
\* constructs in sequence
RECURSIVE Bodies(_)
Bodies(d) ==
    IF d = 0 THEN {<<>>}
    ELSE {<<>>} \cup Stmts(Bodies(d - 1))
         \cup {s1 \o s2 : s1 \in Stmts({<<>>}), s2 \in Stmts({<<>>})}

StructuredSources == Bodies(StructDepth)

\* `1 2 + print`
SrcAddPrint == <<I(1), I(2), K("Plus"), K("Print")>>

\* `proc f(int) -> (int) { 1 + } 5 f call print`
SrcProcArrow ==
    <<K("Proc"), N("f"), K("OpenParenthesis"), N("int"), K("CloseParenthesis"),
      K("RightArrow"), K("OpenParenthesis"), N("int"), K("CloseParenthesis"),
      K("OpenBrace"), I(1), K("Plus"), K("CloseBrace"),
      I(5), N("f"), K("Call"), K("Print")>>

\* `proc f(int)(int){ 1 + } 5 f call print`
SrcProcNoArrow ==
    <<K("Proc"), N("f"), K("OpenParenthesis"), N("int"), K("CloseParenthesis"),
      K("OpenParenthesis"), N("int"), K("CloseParenthesis"),
      K("OpenBrace"), I(1), K("Plus"), K("CloseBrace"),
      I(5), N("f"), K("Call"), K("Print")>>

\* `proc f(int bool) -> (int bool) { } f drop`
SrcProcTwoTypes ==
    <<K("Proc"), N("f"), K("OpenParenthesis"), N("int"), N("bool"),
      K("CloseParenthesis"), K("RightArrow"), K("OpenParenthesis"), N("int"),
      N("bool"), K("CloseParenthesis"), K("OpenBrace"), K("CloseBrace"),
      N("f"), K("Drop")>>

\* `proc (int) drop`
SrcAnonymousProc ==
    <<K("Proc"), K("OpenParenthesis"), N("int"), K("CloseParenthesis"), K("Drop")>>

\* `1 2 == print`
SrcEqualPrint == <<I(1), I(2), K("EqualEqual"), K("Print")>>

\* `0 0 == if { 1 print } else { 2 print }`
SrcIfElsePrint ==
    IfElseS(<<I(0), I(0), K("EqualEqual")>>, <<I(1), K("Print")>>, <<I(2), K("Print")>>)

\* `0 while dup 3 < { dup print 1 + } drop`
SrcCountingLoop ==
    <<I(0), K("While"), K("Dup"), I(3), K("LessThan"), K("OpenBrace"),
      K("Dup"), K("Print"), I(1), K("Plus"), K("CloseBrace"), K("Drop")>>

\* `0 1 < if { 1 } else { 0 1 < } print`
SrcBranchMismatch ==
    IfElseS(<<I(0), I(1), K("LessThan")>>, <<I(1)>>, <<I(0), I(1), K("LessThan")>>)
      \o <<K("Print")>>

\* `0 while 0 1 < { 1 < } drop`
SrcLoopRetype ==
    <<I(0), K("While"), I(0), I(1), K("LessThan"), K("OpenBrace"),
      I(1), K("LessThan"), K("CloseBrace"), K("Drop")>>

\* `0 0 == if {`
SrcOpenIf == <<I(0), I(0), K("EqualEqual"), K("If"), K("OpenBrace")>>

\* `0 0 == if { } else {`
SrcOpenElse ==
    <<I(0), I(0), K("EqualEqual"), K("If"), K("OpenBrace"), K("CloseBrace"),
      K("Else"), K("OpenBrace")>>

\* `1 while 0 0 == {`
SrcOpenWhile ==
    <<I(1), K("While"), I(0), I(0), K("EqualEqual"), K("OpenBrace")>>

\* `0 0 == if { 0 0 == if {`
SrcOpenNestedIf ==
    <<I(0), I(0), K("EqualEqual"), K("If"), K("OpenBrace"),
      I(0), I(0), K("EqualEqual"), K("If"), K("OpenBrace")>>

\* `proc f() {`
SrcOpenProc ==
    <<K("Proc"), N("f"), K("OpenParenthesis"), K("CloseParenthesis"), K("OpenBrace")>>

\* `proc f() { }`
ProcF ==
    <<K("Proc"), N("f"), K("OpenParenthesis"), K("CloseParenthesis"),
      K("OpenBrace"), K("CloseBrace")>>

\* `proc f() { } f call f call`
SrcTwoCalls == ProcF \o <<N("f"), K("Call"), N("f"), K("Call")>>

\* `0 0 == if { } proc f() { } f call`
SrcProcAfterIf ==
    IfS(<<I(0), I(0), K("EqualEqual")>>, <<>>) \o ProcF \o <<N("f"), K("Call")>>

\* `0 while dup 1 < { 1 + } drop proc f() { }`
SrcProcAfterWhile == WhileS(<<>>) \o ProcF

\* `0 0 == if { proc f() { } f call }`
SrcProcInIf == IfS(<<I(0), I(0), K("EqualEqual")>>, ProcF \o <<N("f"), K("Call")>>)

\* `proc f() -> (proc ()) { proc g() { } g } f call call`
SrcNestedProc ==
    <<K("Proc"), N("f"), K("OpenParenthesis"), K("CloseParenthesis"),
      K("RightArrow"), K("OpenParenthesis"), K("Proc"), K("OpenParenthesis"),
      K("CloseParenthesis"), K("CloseParenthesis"), K("OpenBrace"),
      K("Proc"), N("g"), K("OpenParenthesis"), K("CloseParenthesis"),
      K("OpenBrace"), K("CloseBrace"), N("g"), K("CloseBrace"),
      N("f"), K("Call"), K("Call")>>

\* `proc f() { 0 1 == if { f call } } f call`
SrcRecursive ==
    <<K("Proc"), N("f"), K("OpenParenthesis"), K("CloseParenthesis"), K("OpenBrace")>>
      \o IfS(<<I(0), I(1), K("EqualEqual")>>, <<N("f"), K("Call")>>)
      \o <<K("CloseBrace"), N("f"), K("Call")>>

\* `proc (1) drop`
SrcLiteralParameter ==
    <<K("Proc"), K("OpenParenthesis"), I(1), K("CloseParenthesis"), K("Drop")>>

\* `proc (1 2) drop`
SrcLiteralPair ==
    <<K("Proc"), K("OpenParenthesis"), I(1), I(2), K("CloseParenthesis"), K("Drop")>>

\* `proc f() -> (1) { }`
SrcLiteralReturn ==
    <<K("Proc"), N("f"), K("OpenParenthesis"), K("CloseParenthesis"),
      K("RightArrow"), K("OpenParenthesis"), I(1), K("CloseParenthesis"),
      K("OpenBrace"), K("CloseBrace")>>

\* `proc (foo) drop`
SrcUnknownParameter ==
    <<K("Proc"), K("OpenParenthesis"), N("foo"), K("CloseParenthesis"), K("Drop")>>

\* `proc (foo int) drop`
SrcUnknownFirstParameter ==
    <<K("Proc"), K("OpenParenthesis"), N("foo"), N("int"), K("CloseParenthesis"),
      K("Drop")>>

\* `true if { 1 print } else { 2 print }`
SrcTrueIfElse ==
    IfElseS(<<N("true")>>, <<I(1), K("Print")>>, <<I(2), K("Print")>>)

\* `1 2 = print` : lexer.rs:99 lexes `=` as TokenKind::Equal
SrcEqualSign == <<I(1), I(2), K("Equal"), K("Print")>>

\* `0 0 == 0 1 == != print`
SrcCompareBools ==
    <<I(0), I(0), K("EqualEqual"), I(0), I(1), K("EqualEqual"), K("NotEqual"),
      K("Print")>>

\* `proc f() { } f f == print`
SrcComparePointers == ProcF \o <<N("f"), N("f"), K("EqualEqual"), K("Print")>>

\* `proc f() { } 1 f != print`
SrcCompareMixed == ProcF \o <<I(1), N("f"), K("NotEqual"), K("Print")>>

\* `proc f() { dup 0 != if { 1 - f call 7 print } } 2 f call drop`
SrcCountdown ==
    <<K("Proc"), N("f"), K("OpenParenthesis"), K("CloseParenthesis"), K("OpenBrace"),
      K("Dup"), I(0), K("NotEqual")>>
      \o IfS(<<>>, <<I(1), K("Minus"), N("f"), K("Call"), I(7), K("Print")>>)
      \o <<K("CloseBrace"), I(2), N("f"), K("Call"), K("Drop")>>

\* `7 0 0 == if { proc f(int int) -> (int int) { } 1 f call drop } drop`
SrcCallUnderValue ==
    <<I(7)>>
      \o IfS(<<I(0), I(0), K("EqualEqual")>>,
             <<K("Proc"), N("f"), K("OpenParenthesis"), N("int"), N("int"),
               K("CloseParenthesis"), K("RightArrow"), K("OpenParenthesis"),
               N("int"), N("int"), K("CloseParenthesis"), K("OpenBrace"),
               K("CloseBrace"), I(1), N("f"), K("Call"), K("Drop")>>)
      \o <<K("Drop")>>

\* `proc f(int int) { drop } 0 0 == f call`
SrcCallWithBool ==
    <<K("Proc"), N("f"), K("OpenParenthesis"), N("int"), N("int"),
      K("CloseParenthesis"), K("OpenBrace"), K("Drop"), K("CloseBrace"),
      I(0), I(0), K("EqualEqual"), N("f"), K("Call")>>

\* `proc f() -> (int int) {` body `}`
ProcReturningS(body) ==
    <<K("Proc"), N("f"), K("OpenParenthesis"), K("CloseParenthesis"),
      K("RightArrow"), K("OpenParenthesis"), N("int"), N("int"),
      K("CloseParenthesis"), K("OpenBrace")>> \o body \o <<K("CloseBrace")>>

\* `proc f() -> (int int) { 0 0 }`
SrcReturnExtra == ProcReturningS(<<I(0), I(0)>>)

\* `proc f() -> (int int) { 0 0 == }`
SrcReturnBool == ProcReturningS(<<I(0), I(0), K("EqualEqual")>>)

\* `1 0 / print`
SrcDivideByZero == <<I(1), I(0), K("Slash"), K("Print")>>

\* operands that leave an Integer, a Type or a Bool
Operands == {<<I(0)>>, <<I(1)>>, <<N("int")>>, <<I(0), I(0), K("EqualEqual")>>}

\* two operands and one op on them, for every op written as one token
OperandSources == {a \o b \o <<K(kind)>> : a \in Operands, b \in Operands, kind \in SimpleKinds}

\* `proc f() { } proc f() { proc f() { } f call } f call`
SrcShadowing ==
    ProcF \o <<K("Proc"), N("f"), K("OpenParenthesis"), K("CloseParenthesis"),
               K("OpenBrace")>>
          \o ProcF \o <<N("f"), K("Call"), K("CloseBrace"), N("f"), K("Call")>>

\* `0 0 == if { proc f() { } } f`
SrcOutOfScope == IfS(<<I(0), I(0), K("EqualEqual")>>, ProcF) \o <<N("f")>>

\* `7 2 / print`
SrcDivide == <<I(7), I(2), K("Slash"), K("Print")>>

Scenarios ==
    {SrcDivide, SrcShadowing, SrcOutOfScope, SrcDivideByZero, SrcCallUnderValue, SrcCallWithBool, SrcReturnExtra, SrcReturnBool, SrcCountdown, SrcEqualSign, SrcCompareBools, SrcComparePointers, SrcCompareMixed,
     SrcTrueIfElse, SrcUnknownParameter, SrcUnknownFirstParameter, SrcLiteralParameter, SrcLiteralPair, SrcLiteralReturn,
     SrcAddPrint, SrcProcArrow, SrcProcNoArrow, SrcProcTwoTypes, SrcAnonymousProc,
     SrcEqualPrint, SrcIfElsePrint, SrcCountingLoop, SrcBranchMismatch,
     SrcLoopRetype, SrcOpenIf, SrcOpenNestedIf, SrcOpenElse, SrcOpenWhile, SrcOpenProc, SrcTwoCalls,
     SrcProcAfterIf, SrcProcAfterWhile, SrcProcInIf, SrcNestedProc, SrcRecursive}

Sources == ShortSources \cup StructuredSources \cup OperandSources \cup Scenarios

\* ------------------------------------------------------------------------
\* The tokenizer machine: a client calls the four operations of the
\* Tokenizer trait, in any order, on a tokenizer built over a small array.
\* ------------------------------------------------------------------------
TokAlphabet == {I(0), N("int"), K("OpenParenthesis")}

TokKinds == {"Integer", "Name", "OpenParenthesis", "EndOfFile"}

NoCall ==
    [call |-> "none", arg |-> "", ok |-> TRUE, token |-> NoToken,
     err_actual |-> "", err_location |-> 0, before |-> TokenArray(<<>>)]

TokIdle ==
    /\ ta = TokenArray(<<>>)
    /\ ta_op = NoCall
    /\ ta_returned = <<>>
    /\ ta_calls = 0

TokInit ==
    /\ \E toks \in SeqsUpTo(TokAlphabet, MaxTokens) :
          ta \in {TokenArray(Located(toks)), Lexer(Located(toks))}
    /\ ta_op = NoCall
    /\ ta_returned = <<>>
    /\ ta_calls = 0

NextToken ==
    /\ ta_calls < MaxCalls
    /\ LET r == next_token(ta)
       IN  /\ ta' = r.tz
           /\ ta_op' = [NoCall EXCEPT !.call = "next_token", !.token = r.token,
                                      !.before = ta]
           /\ ta_returned' = Append(ta_returned, r.token)
    /\ ta_calls' = ta_calls + 1
    /\ UNCHANGED <<pipevars, lexvars>>

PeekToken ==
    /\ ta_calls < MaxCalls
    /\ ta' = ta
    /\ ta_op' = [NoCall EXCEPT !.call = "peek_token", !.token = peek_token(ta),
                               !.before = ta]
    /\ ta_calls' = ta_calls + 1
    /\ UNCHANGED <<ta_returned, pipevars, lexvars>>

PeekKind ==
    /\ ta_calls < MaxCalls
    /\ ta' = ta
    /\ ta_op' = [NoCall EXCEPT !.call = "peek_kind", !.token = K(peek_kind(ta)),
                               !.before = ta]
    /\ ta_calls' = ta_calls + 1
    /\ UNCHANGED <<ta_returned, pipevars, lexvars>>

ExpectToken ==
    /\ ta_calls < MaxCalls
    /\ \E kind \in TokKinds :
          LET e == expect_token(ta, kind)
          IN  /\ ta' = e.tz
              /\ ta_op' = [call |-> "expect_token", arg |-> kind, ok |-> e.ok,
                           token |-> e.token, err_actual |-> e.err_actual,
                           err_location |-> e.err_location, before |-> ta]
              /\ ta_returned' = IF e.ok THEN Append(ta_returned, e.token)
                                ELSE ta_returned
    /\ ta_calls' = ta_calls + 1
    /\ UNCHANGED <<pipevars, lexvars>>

\* ------------------------------------------------------------------------
\* The pipeline machine
\* ------------------------------------------------------------------------
PipeIdle ==
    /\ pc = "done"
    /\ cs = CompileInit(Lexer(<<>>))
    /\ chk = [CheckInit EXCEPT !.contexts = <<>>]
    /\ seen = <<>>
    /\ started = <<>>
    /\ rs = RunInit
    /\ frames = <<>>
    /\ steps = 0

PipeInit ==
    /\ pc = "compile"
    /\ \E src \in Sources : cs = CompileInit(Lexer(Located(src)))
    /\ chk = CheckInit
    /\ seen = <<>>
    /\ started = <<>>
    /\ rs = RunInit
    /\ frames = <<>>
    /\ steps = 0

\* the caller of compile_ops: on Ok it appends the trailing Exit and hands
\* the op list to the checker (main.rs:855-877, ops.rs:462-466)
Compiled(c) == IF c.result = "Ok" THEN Push(c, Op("Exit", Lexer_eof(c.tz).location)) ELSE c

\* one token of the source goes through compile_ops' loop
CompileOn(kinds) ==
    /\ pc = "compile"
    /\ cs.result = "running"
    /\ peek_kind(cs.tz) \in kinds
    /\ cs' = Compiled(CompileStep(cs))
    /\ pc' = CASE cs'.result = "running" -> "compile"
               [] cs'.result = "Ok" -> "check"
               [] OTHER -> "done"
    /\ UNCHANGED <<chk, seen, started, rs, frames, steps, tokvars, lexvars>>

OnEndOfFile == CompileOn({"EndOfFile"})

OnInteger == CompileOn({"Integer"})

OnName == CompileOn({"Name"})

OnSimple == CompileOn(SimpleKinds)

OnIf == CompileOn({"If"})

OnWhile == CompileOn({"While"})

OnOpenBrace == CompileOn({"OpenBrace"})

OnProc == CompileOn({"Proc"})

OnCloseBrace == CompileOn({"CloseBrace"})

OnUnexpected == CompileOn(UnexpectedKinds)

\* the op the checker's context at work stands on
CheckOp == cs.ops[Top(chk).ip + 1]

\* one iteration of type_check_ops' loop, on an op of the given kinds
CheckOn(opkinds) ==
    /\ pc = "check"
    /\ chk.result = "running"
    /\ Top(chk).ip < Len(cs.ops)
    /\ CheckOp.op \in opkinds
    /\ chk' = CheckStep(cs.ops, chk)
    /\ seen' = Append(seen, [ip |-> Top(chk).ip, types |-> TypesOf(Top(chk).stack)])
    /\ started' = IF CheckOp.op = "SkipProc" THEN Append(started, Top(chk).ip + 1)
                  ELSE started
    /\ pc' = IF chk'.result = "running" /\ Len(seen') < MaxCheckSteps THEN "check"
             ELSE "run"
    /\ UNCHANGED <<cs, rs, frames, steps, tokvars, lexvars>>

ChkExit == CheckOn({"Exit"})

ChkPush == CheckOn({"PushInteger", "PushFunctionPointer", "PushType"})

ChkBinary == CheckOn(ArithmeticOps \cup RelationalOps)

ChkEquality == CheckOn(EqualityOps)

ChkNot == CheckOn({"Not"})

ChkStackOp == CheckOn({"Dup", "Drop", "Swap"})

ChkJump == CheckOn({"Jump"})

ChkConditonalJump == CheckOn({"ConditonalJump"})

ChkPrint == CheckOn({"Print"})

ChkSkipProc == CheckOn({"SkipProc"})

ChkCall == CheckOn({"Call"})

ChkReturn == CheckOn({"Return"})

\* the op the interpreter stands on
RunOp == cs.ops[rs.ip + 1]

\* one iteration of run_ops' loop, on an op of the given kinds
RunOn(opkinds) ==
    /\ pc = "run"
    /\ rs.result = "running"
    /\ rs.ip < Len(cs.ops)
    /\ RunOp.op \in opkinds
    /\ rs' = RunStep(cs.ops, rs)
    /\ frames' = CASE RunOp.op = "Call" /\ rs'.result = "running" ->
                        Append(frames, [entry |-> rs'.ip, resume |-> rs.ip + 1])
                   [] RunOp.op = "Return" /\ rs'.result = "running" -> Front(frames)
                   [] OTHER -> frames
    /\ steps' = steps + 1
    /\ pc' = IF rs'.result = "running" /\ steps' < MaxSteps THEN "run" ELSE "done"
    /\ UNCHANGED <<cs, chk, seen, started, tokvars, lexvars>>

ExecExit == RunOn({"Exit"})

ExecPush == RunOn({"PushInteger", "PushFunctionPointer", "PushType"})

ExecBinary == RunOn(ArithmeticOps \cup RelationalOps)

ExecEquality == RunOn(EqualityOps)

ExecNot == RunOn({"Not"})

ExecStackOp == RunOn({"Dup", "Drop", "Swap"})

ExecJump == RunOn({"Jump"})

ExecConditonalJump == RunOn({"ConditonalJump"})

ExecPrint == RunOn({"Print"})

ExecSkipProc == RunOn({"SkipProc"})

ExecCall == RunOn({"Call"})

ExecReturn == RunOn({"Return"})

\* ------------------------------------------------------------------------
\* The specifications
\* ------------------------------------------------------------------------
\* ------------------------------------------------------------------------
\* The character scanner: next_token is called on a Lexer over a source
\* until it returns EndOfFile or an error, as the loop of compile_ops does
\* ------------------------------------------------------------------------
LexScenarios ==
    {<<"0", "b", "1", "0", "1">>, <<"0", "x", "1", "f">>, <<"0", "o", "1", "7">>,
     <<"0", "d", "1", "9">>, <<"1", "0", "1">>, <<"0", "1", "7">>}

LexSources == SeqsUpTo(Chars, MaxChars) \cup LexScenarios

LexStart(source) == Scanned(Scanner(source), NoCharToken)

LexIdle == lx = LexStart(<<>>)

LexInit == \E source \in LexSources : lx = LexStart(source)

LexNextToken ==
    /\ lx.ok
    /\ lx.token.kind # "EndOfFile"
    /\ lx' = Lexer_scan(lx.l)
    /\ UNCHANGED <<tokvars, pipevars>>

TokNext ==
    \/ NextToken
    \/ PeekToken
    \/ PeekKind
    \/ ExpectToken

InitTok == TokInit /\ PipeIdle /\ LexIdle

SpecTok == InitTok /\ [][TokNext]_vars

Next ==
    \/ OnEndOfFile
    \/ OnInteger
    \/ OnName
    \/ OnSimple
    \/ OnIf
    \/ OnWhile
    \/ OnOpenBrace
    \/ OnProc
    \/ OnCloseBrace
    \/ OnUnexpected
    \/ ChkExit
    \/ ChkPush
    \/ ChkBinary
    \/ ChkEquality
    \/ ChkNot
    \/ ChkStackOp
    \/ ChkJump
    \/ ChkConditonalJump
    \/ ChkPrint
    \/ ChkSkipProc
    \/ ChkCall
    \/ ChkReturn
    \/ ExecExit
    \/ ExecPush
    \/ ExecBinary
    \/ ExecEquality
    \/ ExecNot
    \/ ExecStackOp
    \/ ExecJump
    \/ ExecConditonalJump
    \/ ExecPrint
    \/ ExecSkipProc
    \/ ExecCall
    \/ ExecReturn

Init == TokIdle /\ PipeInit /\ LexIdle

Spec == Init /\ [][Next]_vars

LexNext == LexNextToken

InitLex == TokIdle /\ PipeIdle /\ LexInit

SpecLex == InitLex /\ [][LexNext]_vars

\* ------------------------------------------------------------------------
\* Properties of the tokenizers (checked under SpecTok)
\* ------------------------------------------------------------------------
\* what the contract of a tokenizer over tokens t0..t(n-1) hands out at the
\* i-th consumption: the i-th token, then end-of-file for ever
Contract(t, i) == IF i <= Len(t.tokens) THEN t.tokens[i] ELSE get_end_of_file_token(t)

SameToken(a, b) == a.kind = b.kind /\ a.int = b.int /\ a.str = b.str

\* C7: a TokenArray over t0..t(n-1) hands out t0, t1, ..., t(n-1) in that
\* order, each exactly once, the last one included, and end-of-file on every
\* consumption after that.
C7_TokenArrayReturnsEveryToken ==
    ta.impl = "TokenArray" =>
        \A i \in 1..Len(ta_returned) : ta_returned[i] = Contract(ta, i)

\* C8: for both tokenizers and in every state, a peek leaves the tokenizer
\* as it was, and the next_token that follows it returns a token of the kind
\* and payload that was peeked.
C8_PeekThenNextAgree ==
    /\ ta_op.call \in {"peek_token", "peek_kind"} => ta = ta_op.before
    /\ ta_op.call = "peek_token" => SameToken(next_token(ta).token, ta_op.token)
    /\ ta_op.call = "peek_kind" => next_token(ta).token.kind = ta_op.token.kind

\* C9: expect_token(kind) on a next token of that kind consumes it and
\* returns it, so the token returned has kind `kind`; on any other token it
\* fails naming the actual kind and consumes nothing, so the next_token that
\* follows still returns the mismatched token.
C9_ExpectTokenContract ==
    ta_op.call = "expect_token" =>
        IF peek_kind(ta_op.before) = ta_op.arg
        THEN /\ ta_op.ok
             /\ ta_op.token.kind = ta_op.arg
             /\ SameToken(ta_op.token, peek_token(ta_op.before))
             /\ ta = next_token(ta_op.before).tz
        ELSE /\ ~ta_op.ok
             /\ ta_op.err_actual = peek_kind(ta_op.before)
             /\ ta = ta_op.before
             /\ next_token(ta).token.kind = ta_op.err_actual

\* ------------------------------------------------------------------------
\* Properties of the pipeline (checked under Spec)
\* ------------------------------------------------------------------------
\* the 1-based places of the ops of the given kinds
Places(ops, opkinds) == {i \in 1..Len(ops) : ops[i].op \in opkinds}

\* C1: when type_check_ops returns Ok on a compiled op list, run_ops never
\* pops from an empty operand stack and never applies an op to a value of
\* the wrong tag, at any step, while loops included.
C1_CheckedProgramsRunSafely ==
    chk.result = "Ok" => rs.result \notin {"underflow", "tag"}

\* C2: in a program type_check_ops accepts, any two contexts that reach the
\* same op position carry the same sequence of types on their stacks.
C2_SamePositionSameStack ==
    chk.result = "Ok" =>
        \A i, j \in 1..Len(seen) :
            seen[i].ip = seen[j].ip => seen[i].types = seen[j].types

\* a compiled program whose control flow is if / else / while only
ControlFlowOnly ==
    /\ cs.result = "Ok"
    /\ Places(cs.ops, {"SkipProc", "Call", "Return", "PushFunctionPointer"}) = {}

\* C3: on the op list of a program whose control flow uses only if, else and
\* while, type_check_ops terminates and never reports the Internal Compiler
\* Error (no context meets a ConditonalJump its own list marks Both).
C3_ControlFlowCheckTerminates ==
    ControlFlowOnly => chk.result # "ICE" /\ Len(seen) < MaxCheckSteps

\* the Jump that closes a while body goes back to the loop's condition, which
\* is op 0 when the loop opens the program
LoopBack(ops, j) ==
    \E i \in 1..(j - 1) :
        /\ ops[i].op = "ConditonalJump"
        /\ ops[i].position = j
        /\ ops[j].position < i

\* C4: whenever compile_ops returns Ok, every Jump, ConditonalJump and
\* SkipProc holds a back-patched target that is a valid index into the final
\* op list; none is left with its placeholder 0, also when the source ends
\* inside an open block.
C4_EveryJumpIsPatched ==
    cs.result = "Ok" =>
        \A j \in Places(cs.ops, {"Jump", "ConditonalJump", "SkipProc"}) :
            /\ cs.ops[j].position \in 0..(Len(cs.ops) - 1)
            /\ cs.ops[j].position = 0 => cs.ops[j].op = "Jump" /\ LoopBack(cs.ops, j)

\* C5: during one run of type_check_ops exactly one context is started at
\* the body entry of each declared procedure, whatever precedes the
\* declaration and however many Call sites there are.
C5_BodyCheckedOnce ==
    chk.result = "Ok" =>
        \A i \in Places(cs.ops, {"SkipProc"}) :
            Cardinality({n \in 1..Len(started) : started[n] = i}) = 1

\* op i is a SkipProc and ip lies in its body: strictly after the SkipProc
\* and before its target
InBody(ops, i, ip) == ops[i].op = "SkipProc" /\ i - 1 < ip /\ ip < ops[i].position

\* the entry of the innermost body ip lies in
InnermostEntry(ops, ip) ==
    CHOOSE i \in 1..Len(ops) :
        /\ InBody(ops, i, ip)
        /\ \A k \in 1..Len(ops) : InBody(ops, k, ip) => k <= i

\* C6: while run_ops runs, the ip lies inside a procedure body only as a
\* consequence of a Call through a FunctionPointer whose value is that
\* body's entry: fallthrough, Jump and ConditonalJump never move it in.
C6_BodyEnteredOnlyByCall ==
    (pc \in {"run", "done"} /\ rs.result = "running") =>
        \A i \in 1..Len(cs.ops) :
            InBody(cs.ops, i, rs.ip) =>
                frames # <<>> /\ Last(frames).entry = InnermostEntry(cs.ops, rs.ip)

\* a Call has landed the interpreter on the first op of a body, after a
\* SkipProc had been stepped over
C6_Witness ==
    /\ pc = "run"
    /\ rs.result = "running"
    /\ frames # <<>>
    /\ \E i \in 1..Len(cs.ops) : InBody(cs.ops, i, rs.ip) /\ rs.ip = i
    /\ Len(rs.return_stack) = 1

\* the built-in type a type name denotes (ops.rs:296-316)
IsTypeName(token) == token.kind = "Name" /\ token.str \in {"int", "bool", "type"}

BuiltinType(token) ==
    CASE token.str = "int" -> TypeInteger
      [] token.str = "bool" -> TypeBool
      [] OTHER -> TypeType

\* the number of parentheses open at token i of the source
ParenDepth(toks, i) ==
    Cardinality({j \in 1..(i - 1) : toks[j].kind = "OpenParenthesis"})
      - Cardinality({j \in 1..(i - 1) : toks[j].kind = "CloseParenthesis"})

\* the place of the parenthesis that closes the one at `open`, for a span
\* without inner parentheses; 0 when there is none
SpanClose(toks, open) ==
    IF \E j \in (open + 1)..Len(toks) : toks[j].kind = "CloseParenthesis"
    THEN CHOOSE j \in (open + 1)..Len(toks) :
            /\ toks[j].kind = "CloseParenthesis"
            /\ \A n \in (open + 1)..(j - 1) : toks[n].kind # "CloseParenthesis"
    ELSE 0

\* a span "(" name ... name ")" of built-in type names opens at `open`
TypeNameSpan(toks, open) ==
    /\ open <= Len(toks)
    /\ toks[open].kind = "OpenParenthesis"
    /\ SpanClose(toks, open) # 0
    /\ \A n \in (open + 1)..(SpanClose(toks, open) - 1) : IsTypeName(toks[n])

\* the types the span denotes, in source order, one per name
Denoted(toks, open) ==
    [n \in 1..(SpanClose(toks, open) - open - 1) |-> BuiltinType(toks[open + n])]

\* the return list that follows the parameter span opened at `open`
HasReturns(toks, open) ==
    /\ SpanClose(toks, open) + 1 <= Len(toks)
    /\ toks[SpanClose(toks, open) + 1].kind = "RightArrow"

DenotedReturns(toks, open) ==
    IF HasReturns(toks, open) THEN Denoted(toks, SpanClose(toks, open) + 2) ELSE <<>>

\* a signature of built-in type names only opens at `open`
TypeNameSignature(toks, open) ==
    /\ TypeNameSpan(toks, open)
    /\ HasReturns(toks, open) => TypeNameSpan(toks, SpanClose(toks, open) + 2)

\* the places of the procs declared outside every signature: named ones and
\* anonymous ones
NamedProcs(toks) ==
    {i \in 1..(Len(toks) - 2) :
        /\ toks[i].kind = "Proc" /\ toks[i + 1].kind = "Name"
        /\ ParenDepth(toks, i) = 0}

AnonymousProcs(toks) ==
    {i \in 1..(Len(toks) - 1) :
        /\ toks[i].kind = "Proc" /\ toks[i + 1].kind = "OpenParenthesis"
        /\ ParenDepth(toks, i) = 0}

\* the n-th member of a set of places, in increasing order
Rank(S, i) == Cardinality({j \in S : j <= i})

\* the procedure types pushed by the program itself
ProcedureTypePushes(ops) ==
    {p \in Places(ops, {"PushType"}) : ops[p].typ.k = "Procedure"}

\* C10: the parameters and return_types recorded in a named procedure's
\* SkipProc, and in an anonymous proc's PushType, are exactly the types
\* denoted by the tokens between the signature parentheses, in source order,
\* one entry per type expression: `(int)` yields [Integer].
C10_SignatureTypesMatchSpan ==
    cs.result = "Ok" =>
        LET toks == cs.tz.tokens
        IN  /\ \A i \in NamedProcs(toks) : \A p \in Places(cs.ops, {"SkipProc"}) :
                  (/\ Rank(NamedProcs(toks), i) = Rank(Places(cs.ops, {"SkipProc"}), p)
                   /\ TypeNameSignature(toks, i + 2)) =>
                      /\ cs.ops[p].parameters = Denoted(toks, i + 2)
                      /\ cs.ops[p].return_types = DenotedReturns(toks, i + 2)
            /\ \A i \in AnonymousProcs(toks) : \A p \in ProcedureTypePushes(cs.ops) :
                  (/\ Rank(AnonymousProcs(toks), i) = Rank(ProcedureTypePushes(cs.ops), p)
                   /\ TypeNameSignature(toks, i + 1)) =>
                      /\ cs.ops[p].typ.parameters = Denoted(toks, i + 1)
                      /\ cs.ops[p].typ.return_types = DenotedReturns(toks, i + 1)

\* ------------------------------------------------------------------------
\* The worked examples and the error contract of compile_ops
\* ------------------------------------------------------------------------
\* the final states of the pipeline on a source: the compiler has stopped
\* and, when it returned Ok, the checker and the interpreter have stopped too
Finished == pc = "done"

\* the checker's verdict is in
Checked == pc \in {"run", "done"} /\ cs.result = "Ok"

\* C11: the source `proc f(int)(int){ 1 + } 5 f call print` compiles
\* without error, the checker accepts it with f typed parameters [Integer]
\* and returns [Integer], and its execution prints 6.
C11_ProcExampleAcceptedPrintsSix ==
    cs.tz.tokens = Located(SrcProcNoArrow) =>
        /\ cs.result \in {"running", "Ok"}
        /\ Checked =>
              /\ chk.result \in {"running", "Ok"}
              /\ \A p \in Places(cs.ops, {"SkipProc"}) :
                    /\ cs.ops[p].parameters = <<TypeInteger>>
                    /\ cs.ops[p].return_types = <<TypeInteger>>
        /\ Finished => rs.result = "exit" /\ rs.output = <<VInteger(6)>>

\* a span "(" ... ")" of integer literals and built-in type names, with at
\* least one literal, opens at `open`: run as a program it leaves an Integer
LiteralSpan(toks, open) ==
    /\ open <= Len(toks)
    /\ toks[open].kind = "OpenParenthesis"
    /\ SpanClose(toks, open) # 0
    /\ \A n \in (open + 1)..(SpanClose(toks, open) - 1) :
          toks[n].kind = "Integer" \/ IsTypeName(toks[n])
    /\ \E n \in (open + 1)..(SpanClose(toks, open) - 1) : toks[n].kind = "Integer"

\* the place of the parenthesis that opens the signature of a proc at place 1
FirstSignature(toks) == IF toks[2].kind = "Name" THEN 3 ELSE 2

\* the source opens with a proc whose parameter span or return span holds
\* an integer literal
LiteralInFirstSignature(toks) ==
    /\ Len(toks) >= 2
    /\ toks[1].kind = "Proc"
    /\ \/ LiteralSpan(toks, FirstSignature(toks))
       \/ /\ TypeNameSpan(toks, FirstSignature(toks))
          /\ HasReturns(toks, FirstSignature(toks))
          /\ LiteralSpan(toks, SpanClose(toks, FirstSignature(toks)) + 2)

\* C12: if the sub-program compiled from a parameter span or a return span
\* leaves a value that is not a Type value on its final stack (an integer
\* literal inside the parentheses), compile_ops fails with an error and no
\* SkipProc or PushType is emitted for that proc.
C12_NonTypeInSignatureIsAnError ==
    (LiteralInFirstSignature(cs.tz.tokens) /\ cs.tz.position > 0) =>
        /\ cs.result = "Err"
        /\ Places(cs.ops, {"SkipProc", "PushType"}) = {}

\* the name at place n is a reference to a name that is no built-in type
\* and that no proc of the source declares
UnresolvedName(toks, n) ==
    /\ toks[n].kind = "Name"
    /\ ~IsTypeName(toks[n])
    /\ \A j \in 1..(Len(toks) - 1) :
          ~(toks[j].kind = "Proc" /\ toks[j + 1].kind = "Name"
            /\ toks[j + 1].str = toks[n].str)

\* C13: when a Name token is neither a built-in type name nor declared in
\* any enclosing scope, compilation fails with an error located at that
\* token: the compiler never reads past it and goes on, and a name error is
\* located at an unresolved name.
C13_UnresolvedNameIsAnError ==
    LET toks == cs.tz.tokens
    IN  /\ \A n \in 1..Len(toks) :
              (UnresolvedName(toks, n) /\ cs.tz.position >= n) =>
                  cs.result \notin {"running", "Ok"}
        /\ (cs.result = "Err" /\ cs.err_kind = "Name") =>
              \E n \in 1..Len(toks) :
                  UnresolvedName(toks, n) /\ cs.err_location = toks[n].location

\* the number of braces open at token i of the source
BraceDepth(toks, i) ==
    Cardinality({j \in 1..(i - 1) : toks[j].kind = "OpenBrace"})
      - Cardinality({j \in 1..(i - 1) : toks[j].kind = "CloseBrace"})

\* no token of the given kinds comes before token n
NoneBefore(toks, n, kinds) == \A j \in 1..(n - 1) : toks[j].kind \notin kinds

\* a `}` when no block is open
StrayCloseBrace(toks, n) ==
    /\ toks[n].kind = "CloseBrace"
    /\ BraceDepth(toks, n) = 0
    /\ ParenDepth(toks, n) = 0

\* a `{` that follows no while condition (nor an if, an else or a proc
\* header), and `(`, `)`, `->` or `else` where no proc signature and no
\* closed if can be
MisplacedOther(toks, n) ==
    \/ /\ toks[n].kind = "OpenBrace"
       /\ NoneBefore(toks, n, {"If", "While", "Proc", "Else"})
    \/ /\ toks[n].kind \in {"OpenParenthesis", "CloseParenthesis", "RightArrow"}
       /\ NoneBefore(toks, n, {"Proc"})
    \/ /\ toks[n].kind = "Else"
       /\ NoneBefore(toks, n, {"Proc"})
       /\ (n = 1 \/ toks[n - 1].kind # "CloseBrace")

\* C14: a token that is not valid at its position makes compile_ops return
\* an Err instead of panicking or accepting it: a `}` when no block is open,
\* a `{` that does not follow a pending while condition, and `(`, `)`, `->`
\* or `else` outside a proc signature / if-close.
C14_MisplacedTokenIsAnError ==
    \A n \in 1..Len(cs.tz.tokens) :
        (/\ StrayCloseBrace(cs.tz.tokens, n) \/ MisplacedOther(cs.tz.tokens, n)
         /\ cs.tz.position >= n) =>
            cs.result = "Err"

\* C15: when compile_ops returns an Err, the caller's op list is exactly as
\* it was before the call (empty, for the call on the whole source): no op
\* appended or patched by the failed compilation remains in it.
C15_NoPartialOpsOnError ==
    cs.result = "Err" => cs.ops = CompileInit(cs.tz).ops

\* ------------------------------------------------------------------------
\* Control constructs at run time.  An op carries the location of the token
\* it was compiled from, and ops are appended in token order: the ops of a
\* block are the ops located strictly between its braces.
\* ------------------------------------------------------------------------
\* the place of the `}` that closes the `{` at `open`; 0 when there is none
BraceMatch(toks, open) ==
    LET Closes(j) ==
            /\ toks[j].kind = "CloseBrace"
            /\ BraceDepth(toks, j) = BraceDepth(toks, open) + 1
    IN  IF \E j \in (open + 1)..Len(toks) : Closes(j)
        THEN CHOOSE j \in (open + 1)..Len(toks) :
                Closes(j) /\ \A m \in (open + 1)..(j - 1) : ~Closes(m)
        ELSE 0

\* a block "{" ... "}" opens at `open`
BlockAt(toks, open) ==
    /\ open <= Len(toks)
    /\ toks[open].kind = "OpenBrace"
    /\ BraceMatch(toks, open) # 0

\* the if at place n has an else
HasElse(toks, n) ==
    /\ BraceMatch(toks, n + 1) + 1 <= Len(toks)
    /\ toks[BraceMatch(toks, n + 1) + 1].kind = "Else"

\* `if { T }` or `if { T } else { E }` stands at place n, outside every
\* signature
IfConstruct(toks, n) ==
    /\ toks[n].kind = "If"
    /\ ParenDepth(toks, n) = 0
    /\ BlockAt(toks, n + 1)
    /\ HasElse(toks, n) => BlockAt(toks, BraceMatch(toks, n + 1) + 2)

\* the last token of the construct
IfEnd(toks, n) ==
    IF HasElse(toks, n) THEN BraceMatch(toks, BraceMatch(toks, n + 1) + 2)
    ELSE BraceMatch(toks, n + 1)

\* the ops compiled from the tokens strictly between places a and b
OpsBetween(ops, a, b) ==
    {i \in 1..Len(ops) : a < ops[i].location /\ ops[i].location < b}

\* the first op compiled from a token after place t
FirstAfter(ops, t) ==
    CHOOSE i \in 1..Len(ops) :
        /\ ops[i].location > t
        /\ \A j \in 1..(i - 1) : ops[j].location <= t

ThenOps(ops, toks, n) == OpsBetween(ops, n + 1, BraceMatch(toks, n + 1))

ElseOps(ops, toks, n) ==
    IF HasElse(toks, n)
    THEN OpsBetween(ops, BraceMatch(toks, n + 1) + 2, IfEnd(toks, n))
    ELSE {}

\* where the construct goes on a false condition: the first op of E, or the
\* first op after the construct
OnFalse(ops, toks, n) ==
    FirstAfter(ops, IF HasElse(toks, n) THEN BraceMatch(toks, n + 1) + 1
                    ELSE BraceMatch(toks, n + 1))

\* run_ops has executed the op at rs.ip and goes on
RunStepTaken ==
    /\ pc = "run"
    /\ cs.result = "Ok"
    /\ steps' = steps + 1
    /\ rs'.result = "running"

\* the step is no Call and no Return
LocalStep == RunOp.op \notin {"Call", "Return"}

\* the if at place n, whose Not is op p - 1 and whose ConditonalJump is op
\* p, behaves as the construct it was compiled from
IfBehaves(ops, toks, n, p) ==
    /\ (rs.ip + 1 = p - 1 /\ ops[p - 1].op = "Not") =>
          /\ rs'.ip + 1 = p
          /\ Last(rs'.stack) = VBool(~Last(rs.stack).bool)
    /\ (rs.ip + 1 = p) =>
          rs'.ip + 1 = IF Last(rs.stack).bool THEN OnFalse(ops, toks, n) ELSE p + 1
    /\ (LocalStep /\ rs.ip + 1 \notin ThenOps(ops, toks, n)
                  /\ rs'.ip + 1 \in ThenOps(ops, toks, n)) =>
          rs.ip + 1 = p /\ Last(rs.stack) = VBool(FALSE)
    /\ (LocalStep /\ rs.ip + 1 \notin ElseOps(ops, toks, n)
                  /\ rs'.ip + 1 \in ElseOps(ops, toks, n)) =>
          rs.ip + 1 = p /\ Last(rs.stack) = VBool(TRUE)
    /\ (LocalStep /\ rs.ip + 1 \in OpsBetween(ops, n - 1, IfEnd(toks, n) + 1)
                  /\ rs'.ip + 1 \notin OpsBetween(ops, n - 1, IfEnd(toks, n) + 1)) =>
          rs'.ip + 1 = FirstAfter(ops, IfEnd(toks, n))

\* the execution of `<condition> if { 1 print } else { 2 print }` has ended
\* and 1 alone was printed
OnlyOnePrinted == rs.result = "exit" /\ rs.output = <<VInteger(1)>>

\* C16 as written: `true if { 1 print } else { 2 print }` compiles, runs to
\* its end and prints 1 alone.
C16_TrueIfElsePrintsOne ==
    cs.tz.tokens = Located(SrcTrueIfElse) =>
        /\ cs.result \in {"running", "Ok"}
        /\ Finished => OnlyOnePrinted

\* C16: for compiled `c if { T } else { E }` and `c if { T }`, run_ops
\* executes the ops of T exactly when the condition value is true and the
\* ops of E exactly when it is false, never both, and in both cases goes on
\* with the first op after the whole construct; for
\* `0 0 == if { 1 print } else { 2 print }` only 1 is printed.
C16_IfElseRunsOneBranch ==
    [][/\ RunStepTaken =>
            \A n \in 1..Len(cs.tz.tokens) :
                IfConstruct(cs.tz.tokens, n) =>
                    \A p \in Places(cs.ops, {"ConditonalJump"}) :
                        cs.ops[p].location = n =>
                            IfBehaves(cs.ops, cs.tz.tokens, n, p)
       /\ (cs.tz.tokens = Located(SrcIfElsePrint) /\ pc' = "done") =>
              OnlyOnePrinted']_vars

\* `0 0 == if { 1 print } else { 2 print }` has run to its end: the then
\* block was executed and the else block was not
C16_Witness ==
    /\ cs.tz.tokens = Located(SrcIfElsePrint)
    /\ Finished
    /\ OnlyOnePrinted

\* the place of the first `{` after place w; 0 when there is none
FirstOpenBrace(toks, w) ==
    IF \E j \in (w + 1)..Len(toks) : toks[j].kind = "OpenBrace"
    THEN CHOOSE j \in (w + 1)..Len(toks) :
            /\ toks[j].kind = "OpenBrace"
            /\ \A m \in (w + 1)..(j - 1) : toks[m].kind # "OpenBrace"
    ELSE 0

\* `while C { B }` stands at place w, outside every signature, with a
\* condition C free of nested constructs
WhileConstruct(toks, w) ==
    /\ toks[w].kind = "While"
    /\ ParenDepth(toks, w) = 0
    /\ FirstOpenBrace(toks, w) # 0
    /\ \A m \in (w + 1)..(FirstOpenBrace(toks, w) - 1) :
          toks[m].kind \notin {"If", "Else", "While", "Proc", "CloseBrace"}
    /\ BraceMatch(toks, FirstOpenBrace(toks, w)) # 0

\* the `}` that closes the loop
WhileEnd(toks, w) == BraceMatch(toks, FirstOpenBrace(toks, w))

BodyOps(ops, toks, w) == OpsBetween(ops, FirstOpenBrace(toks, w), WhileEnd(toks, w))

\* the ops of the condition, the exit test, the body and the back jump
LoopOps(ops, toks, w) == OpsBetween(ops, w, WhileEnd(toks, w) + 1)

\* the while at place w, whose exit test is the Not at op p - 1 and the
\* ConditonalJump at op p, behaves as the loop it was compiled from
WhileBehaves(ops, toks, w, p) ==
    /\ (rs.ip + 1 = p - 1) =>
          /\ rs'.ip + 1 = p
          /\ Last(rs'.stack) = VBool(~Last(rs.stack).bool)
    /\ (rs.ip + 1 = p) =>
          rs'.ip + 1 = IF Last(rs.stack).bool THEN FirstAfter(ops, WhileEnd(toks, w))
                       ELSE p + 1
    /\ (RunOp.op = "Jump" /\ RunOp.location = WhileEnd(toks, w)) =>
          rs'.ip + 1 = FirstAfter(ops, w)
    /\ (LocalStep /\ rs.ip + 1 \notin BodyOps(ops, toks, w)
                  /\ rs'.ip + 1 \in BodyOps(ops, toks, w)) =>
          rs.ip + 1 = p /\ Last(rs.stack) = VBool(FALSE)
    /\ (LocalStep /\ rs.ip + 1 \in LoopOps(ops, toks, w)
                  /\ rs'.ip + 1 \notin LoopOps(ops, toks, w)) =>
          /\ rs.ip + 1 = p
          /\ Last(rs.stack) = VBool(TRUE)
          /\ rs'.ip + 1 = FirstAfter(ops, WhileEnd(toks, w))

\* the checker accepted the program, its execution has ended and 0, 1, 2
\* were printed, in that order and nothing else
CountedToThree ==
    /\ chk.result = "Ok"
    /\ rs.result = "exit"
    /\ rs.output = <<VInteger(0), VInteger(1), VInteger(2)>>

\* C17: for compiled `while C { B }`, run_ops re-evaluates C before every
\* iteration, runs B once for each true result and leaves the loop at the
\* first false result; `0 while dup 3 < { dup print 1 + } drop` is accepted
\* by the checker and prints 0, 1, 2 in that order and nothing else.
C17_WhileRunsBodyWhileTrue ==
    [][/\ RunStepTaken =>
            \A w \in 1..Len(cs.tz.tokens) :
                WhileConstruct(cs.tz.tokens, w) =>
                    \A p \in Places(cs.ops, {"ConditonalJump"}) :
                        cs.ops[p].location = FirstOpenBrace(cs.tz.tokens, w) =>
                            WhileBehaves(cs.ops, cs.tz.tokens, w, p)
       /\ (cs.tz.tokens = Located(SrcCountingLoop) /\ pc' = "done") =>
              CountedToThree']_vars

\* `0 while dup 3 < { dup print 1 + } drop` has run to its end after three
\* iterations
C17_Witness ==
    /\ cs.tz.tokens = Located(SrcCountingLoop)
    /\ Finished
    /\ CountedToThree

\* the kind and the value of each op, in order
OpsBrief(ops) == [i \in 1..Len(ops) |-> <<ops[i].op, ops[i].value>>]

\* C18: compiling `1 2 + print` yields exactly the op list [PushInteger 1,
\* PushInteger 2, Add, Print, Exit], one op per token, in token order, plus
\* the final Exit; the checker accepts it and execution prints 3.
C18_AddPrintExample ==
    cs.tz.tokens = Located(SrcAddPrint) =>
        /\ cs.result \in {"running", "Ok"}
        /\ cs.result = "running" =>
              /\ Len(cs.ops) = cs.tz.position
              /\ \A i \in 1..Len(cs.ops) : cs.ops[i].location = i
        /\ cs.result = "Ok" =>
              /\ OpsBrief(cs.ops) = <<<<"PushInteger", 1>>, <<"PushInteger", 2>>,
                                      <<"AddInteger", 0>>, <<"Print", 0>>, <<"Exit", 0>>>>
              /\ \A i \in 1..Len(cs.ops) : cs.ops[i].location = i
        /\ chk.result \in {"running", "Ok"}
        /\ pc \in {"run", "done"} => chk.result = "Ok"
        /\ Finished => rs.result = "exit" /\ rs.output = <<VInteger(3)>>

\* `1 2 + print` was compiled, checked and run to its end, and 3 was
\* printed
C18_Witness ==
    /\ cs.tz.tokens = Located(SrcAddPrint)
    /\ Len(cs.ops) = 5
    /\ chk.result = "Ok"
    /\ Finished
    /\ rs.output = <<VInteger(3)>>

\* ------------------------------------------------------------------------
\* Equality at run time
\* ------------------------------------------------------------------------
\* run_ops executes an Equal or a NotEqual
EqualityStep ==
    /\ pc = "run"
    /\ steps' = steps + 1
    /\ RunOp.op \in EqualityOps

\* the two operands, the one pushed first and the one pushed last
Lhs == rs.stack[Len(rs.stack) - 1]

Rhs == Last(rs.stack)

\* equality by value of two values of one tag
SameValue(x, y) ==
    CASE x.tag = "Integer" -> x.int = y.int
      [] x.tag = "Bool" -> x.bool = y.bool
      [] x.tag = "FunctionPointer" -> x.int = y.int

RunStepAt(opkinds) ==
    /\ pc = "run"
    /\ steps' = steps + 1
    /\ RunOp.op \in opkinds

\* C20: Call pops a FunctionPointer, pushes the index of the op after the
\* Call onto the return stack and jumps to the pointer; Return pops the
\* return stack and jumps there, so every Return resumes at the op right
\* after the most recent Call that has not yet returned, also under nested
\* and recursive calls; the operand stack is not touched by the
\* return-address bookkeeping, and no other op touches the return stack.
C20_ReturnResumesAfterLatestCall ==
    [][/\ (RunStepAt({"Call"}) /\ rs'.result = "running") =>
              /\ Last(rs.stack).tag = "FunctionPointer"
              /\ rs'.ip = Last(rs.stack).int
              /\ rs'.stack = Front(rs.stack)
              /\ rs'.return_stack = Append(rs.return_stack, rs.ip + 1)
       /\ (RunStepAt({"Call"}) /\ rs.stack # <<>>
             /\ Last(rs.stack).tag = "FunctionPointer") => rs'.result = "running"
       /\ (RunStepAt({"Return"}) /\ rs'.result = "running") =>
              /\ frames # <<>>
              /\ rs'.ip = Last(frames).resume
              /\ cs.ops[rs'.ip].op = "Call"
              /\ rs'.stack = rs.stack
              /\ rs'.return_stack = Front(rs.return_stack)
       /\ (RunStepAt({"Return"}) /\ frames # <<>>) => rs'.result = "running"
       /\ (pc = "run" /\ steps' = steps + 1 /\ RunOp.op \notin {"Call", "Return"}) =>
              rs'.return_stack = rs.return_stack]_vars

\* the recursive countdown has run to its end: f called itself twice, and
\* each of the two inner calls returned to the `7 print` that follows it
C20_Witness ==
    /\ cs.tz.tokens = Located(SrcCountdown)
    /\ Finished
    /\ rs.result = "exit"
    /\ rs.output = <<VInteger(7), VInteger(7)>>
    /\ rs.return_stack = <<>>
    /\ frames = <<>>

\* ------------------------------------------------------------------------
\* The checker's work-stack
\* ------------------------------------------------------------------------
\* type_check_ops processes the op its top context stands on
CheckStepAt(opkinds) ==
    /\ pc = "check"
    /\ Len(seen') = Len(seen) + 1
    /\ CheckOp.op \in opkinds

\* every kind of op
AllOps ==
    {"Exit", "PushFunctionPointer", "PushInteger", "PushType", "Not", "Dup", "Drop",
     "Swap", "Jump", "ConditonalJump", "Print", "SkipProc", "Call", "Return"}
    \cup ArithmeticOps \cup RelationalOps \cup EqualityOps

\* the entry of the top context's branch table for the ConditonalJump it
\* stands on; 0 when there is none
OwnEntry ==
    JumpListPosition(Top(chk).condtional_jump_list, Top(chk).ip)

\* the top context meets a ConditonalJump for the first time with a Bool on
\* top of its stack
FirstVisit ==
    /\ CheckStepAt({"ConditonalJump"})
    /\ OwnEntry = 0
    /\ chk'.result = "running"

\* C21 as written: after a first visit the context at work is the one that
\* took the jump; the fallthrough sibling waits beneath it.
C21_JumpSideExploredFirst ==
    [][FirstVisit =>
          /\ Top(chk').ip = CheckOp.position
          /\ Last(Top(chk').condtional_jump_list).jump_type = "Jump"]_vars

\* C21: when a context first reaches a ConditonalJump, the sibling pushed
\* for the fallthrough side is the context at work, and the context that
\* took the jump waits beneath it: no context beneath the top is touched,
\* and the work-stack shrinks only by the top context ending at Exit or
\* Return, so the fallthrough side is explored to completion before any op
\* of the jump side is processed.
C21_FallthroughSiblingExploredFirst ==
    [][/\ FirstVisit =>
            LET n == Len(chk.contexts)
                p == Top(chk).ip
            IN  /\ Len(chk'.contexts) = n + 1
                /\ Top(chk').ip = p + 1
                /\ Last(Top(chk').condtional_jump_list) =
                      [pos |-> p, jump_type |-> "Fallthrough"]
                /\ chk'.contexts[n].ip = CheckOp.position
                /\ Last(chk'.contexts[n].condtional_jump_list) =
                      [pos |-> p, jump_type |-> "Jump"]
       /\ CheckStepAt(AllOps) =>
            /\ \A i \in 1..(Len(chk.contexts) - 1) :
                  i <= Len(chk'.contexts) /\ chk'.contexts[i] = chk.contexts[i]
            /\ Len(chk'.contexts) < Len(chk.contexts) =>
                  /\ CheckOp.op \in {"Exit", "Return"}
                  /\ Len(chk'.contexts) = Len(chk.contexts) - 1]_vars

\* the fallthrough sibling of a fork has gone on past the op after the
\* ConditonalJump while the jump side still waits at the jump target
C21_Witness ==
    /\ pc = "check"
    /\ chk.result = "running"
    /\ Len(chk.contexts) >= 2
    /\ LET deferred == chk.contexts[Len(chk.contexts) - 1]
           list == deferred.condtional_jump_list
       IN  /\ list # <<>>
           /\ Last(list).jump_type = "Jump"
           /\ deferred.ip = cs.ops[Last(list).pos + 1].position
           /\ \E i \in 1..Len(Top(chk).condtional_jump_list) :
                 Top(chk).condtional_jump_list[i] =
                     [pos |-> Last(list).pos, jump_type |-> "Fallthrough"]
           /\ Top(chk).ip > Last(list).pos + 1

\* ---------------------------------------------------------------------
\* C22
\* ---------------------------------------------------------------------

\* the context on top stands on a ConditonalJump that its own branch table
\* already marks Both, and the checker takes the step
BothVisit ==
    /\ CheckStepAt({"ConditonalJump"})
    /\ OwnEntry # 0
    /\ Top(chk).condtional_jump_list[OwnEntry].jump_type = "Both"

PrefixBase(chr) ==
    CASE chr = "b" -> 2 [] chr = "o" -> 8 [] chr = "d" -> 10 [] chr = "x" -> 16

\* the number a digit string denotes in a base, most significant digit first
RECURSIVE ReadInBase(_, _)
ReadInBase(digits, base) ==
    IF digits = <<>> THEN 0
    ELSE ReadInBase(Front(digits), base) * base + DigitValue(Last(digits))

\* the source is one literal: a base prefix and at least one digit, every
\* digit valid for the base
PrefixedLiteral(source) ==
    /\ Len(source) >= 3
    /\ source[1] = "0"
    /\ source[2] \in {"b", "o", "d", "x"}
    /\ \A i \in 3..Len(source) :
          /\ source[i] \in Digits \cup Letters
          /\ DigitValue(source[i]) < PrefixBase(source[2])

FirstScan == lx.l.position = 0 /\ lx.token.kind = "None" /\ lx' # lx

\* C23: a literal written 0b, 0o, 0d or 0x followed by digits valid for
\* that base is lexed as one Integer token, as long as the literal, whose
\* value is the digits after the prefix read in base 2, 8, 10 or 16
C23_PrefixedLiteralIsOneInteger ==
    [][(FirstScan /\ PrefixedLiteral(lx.l.source)) =>
            /\ lx'.ok
            /\ lx'.token.kind = "Integer"
            /\ lx'.token.length = Len(lx.l.source)
            /\ lx'.token.int = ReadInBase(SubSeq(lx.l.source, 3, Len(lx.l.source)),
                                          PrefixBase(lx.l.source[2]))]_vars

\* ---------------------------------------------------------------------
\* C24
\* ---------------------------------------------------------------------

\* C24: on a context's first visit to a ConditonalJump at p, after one Bool
\* is popped, exactly one sibling is created, with ip = p + 1 and a copy of
\* the popped stack, of procedure_info and of the branch table plus the
\* entry (p, Fallthrough); the current context gets the entry (p, Jump) and
\* ip = the jump target; every other context is unchanged
C24_FirstVisitForksOneSibling ==
    [][FirstVisit =>
        LET n == Len(chk.contexts)
            context == Top(chk)
            popped == Front(context.stack)
        IN  /\ Last(context.stack).typ = TypeBool
            /\ Len(chk'.contexts) = n + 1
            /\ chk'.contexts[n + 1] =
                  Context(context.ip + 1, popped,
                          Append(context.condtional_jump_list,
                                 [pos |-> context.ip, jump_type |-> "Fallthrough"]),
                          context.procedure_info)
            /\ chk'.contexts[n] =
                  Context(CheckOp.position, popped,
                          Append(context.condtional_jump_list,
                                 [pos |-> context.ip, jump_type |-> "Jump"]),
                          context.procedure_info)
            /\ \A i \in 1..(n - 1) : chk'.contexts[i] = chk.contexts[i]]_vars

\* a fork by a context that already has an entry in its table and keeps
\* values under the condition, with another context waiting beneath it
C24_Witness ==
    /\ pc = "check"
    /\ chk.result = "running"
    /\ Len(chk.contexts) >= 3
    /\ LET sibling == Top(chk)
           current == chk.contexts[Len(chk.contexts) - 1]
       IN  /\ Len(sibling.condtional_jump_list) >= 2
           /\ Last(sibling.condtional_jump_list).jump_type = "Fallthrough"
           /\ sibling.ip = Last(sibling.condtional_jump_list).pos + 1
           /\ Last(current.condtional_jump_list) =
                 [pos |-> sibling.ip - 1, jump_type |-> "Jump"]
           /\ sibling.stack = current.stack
           /\ Len(sibling.stack) > 0
           /\ sibling.procedure_info = current.procedure_info

\* ---------------------------------------------------------------------
\* C25
\* ---------------------------------------------------------------------

\* the context on top comes back to a ConditonalJump it took one side of,
\* and the checker goes on
Revisit(jump_type) ==
    /\ CheckStepAt({"ConditonalJump"})
    /\ OwnEntry # 0
    /\ Top(chk).condtional_jump_list[OwnEntry].jump_type = jump_type
    /\ chk'.result = "running"

OneEntryPerPosition(list) ==
    \A i, j \in 1..Len(list) : list[i].pos = list[j].pos => i = j

\* the context after a revisit that continues at ip
Revisited(context, ip) ==
    [context EXCEPT !.stack = Front(context.stack),
                    !.ip = ip,
                    !.condtional_jump_list[OwnEntry].jump_type = "Both"]

\* C25: on a revisit of a ConditonalJump at p within the same context, an
\* entry Jump makes the context continue at p + 1 and an entry Fallthrough
\* at the jump target; in both cases the entry becomes Both, one Bool is
\* consumed, no context is created, and every branch table keeps at most
\* one entry per position
C25_RevisitTakesTheOtherSide ==
    [][/\ Revisit("Jump") =>
            /\ Last(Top(chk).stack).typ = TypeBool
            /\ chk'.contexts = [chk.contexts EXCEPT ![Len(chk.contexts)] =
                                   Revisited(Top(chk), Top(chk).ip + 1)]
       /\ Revisit("Fallthrough") =>
            /\ Last(Top(chk).stack).typ = TypeBool
            /\ chk'.contexts = [chk.contexts EXCEPT ![Len(chk.contexts)] =
                                   Revisited(Top(chk), CheckOp.position)]
       /\ \A i \in 1..Len(chk'.contexts) :
            OneEntryPerPosition(chk'.contexts[i].condtional_jump_list)]_vars

\* a context has just come back to the ConditonalJump of a loop whose body
\* it went through, and stands at the jump target with the entry Both
C25_Witness ==
    /\ pc = "check"
    /\ chk.result = "running"
    /\ Len(seen) > 0
    /\ cs.ops[Last(seen).ip + 1].op = "ConditonalJump"
    /\ Top(chk).ip = cs.ops[Last(seen).ip + 1].position
    /\ Top(chk).ip > Last(seen).ip + 1
    /\ \E i \in 1..Len(Top(chk).condtional_jump_list) :
          Top(chk).condtional_jump_list[i] = [pos |-> Last(seen).ip, jump_type |-> "Both"]

\* ---------------------------------------------------------------------
\* C26
\* ---------------------------------------------------------------------

\* C26: at a SkipProc at index i the checker pushes one new context with
\* ip = i + 1, whose symbolic stack is exactly the declared parameter types
\* in order, whose branch table is empty and whose procedure_info is the
\* declared signature; the current context continues at the skip target
\* with its stack, branch table and procedure_info unchanged, and so does
\* every context beneath it
C26_SkipProcStartsBodyContext ==
    [][CheckStepAt({"SkipProc"}) =>
        LET n == Len(chk.contexts)
            body == chk'.contexts[n + 1]
        IN  /\ chk'.result = "running"
            /\ Len(chk'.contexts) = n + 1
            /\ body.ip = Top(chk).ip + 1
            /\ TypesOf(body.stack) = CheckOp.parameters
            /\ body.condtional_jump_list = <<>>
            /\ body.procedure_info =
                  SomeProcedure(Procedure(CheckOp.parameters, CheckOp.return_types))
            /\ chk'.contexts[n] = [Top(chk) EXCEPT !.ip = CheckOp.position]
            /\ \A i \in 1..(n - 1) : chk'.contexts[i] = chk.contexts[i]]_vars

\* the body context of a procedure with a parameter has just been started
\* by a context that holds a value and a branch entry of its own
C26_Witness ==
    /\ pc = "check"
    /\ chk.result = "running"
    /\ Len(seen) > 0
    /\ cs.ops[Last(seen).ip + 1].op = "SkipProc"
    /\ Len(chk.contexts) >= 2
    /\ Top(chk).ip = Last(seen).ip + 1
    /\ Len(Top(chk).stack) > 0
    /\ Top(chk).condtional_jump_list = <<>>
    /\ LET current == chk.contexts[Len(chk.contexts) - 1]
       IN  /\ current.ip = cs.ops[Last(seen).ip + 1].position
           /\ Len(current.condtional_jump_list) > 0
           /\ Len(current.stack) > 0

\* ---------------------------------------------------------------------
\* C27
\* ---------------------------------------------------------------------

\* the top symbolic value is a procedure
CalleeOnTop(stack) == Len(stack) > 0 /\ Last(stack).typ.k = "Procedure"

\* the values directly beneath the callee are its parameter types, in order
ParametersBeneath(stack) ==
    LET parameters == Last(stack).typ.parameters
        beneath == Front(stack)
    IN  /\ Len(beneath) >= Len(parameters)
        /\ TypesOf(SubSeq(beneath, Len(beneath) - Len(parameters) + 1, Len(beneath)))
              = parameters

\* C27: at a Call the top symbolic value must be a Procedure type, else a
\* TypeError (also on an empty stack); the values directly beneath it must
\* be its parameter types in order, else a TypeError; on success the callee
\* and the parameters are removed, the return types are pushed in order,
\* the values below the parameters are unchanged, and nothing else changes
\* but the ip of the context, which moves to the next op
C27_CallRule ==
    [][CheckStepAt({"Call"}) =>
        LET stack == Top(chk).stack
        IN  IF ~CalleeOnTop(stack) \/ ~ParametersBeneath(stack)
            THEN chk'.result = "TypeError" /\ chk'.contexts = chk.contexts
            ELSE LET typ == Last(stack).typ
                     rest == Len(stack) - 1 - Len(typ.parameters)
                     after == Top(chk').stack
                 IN  /\ chk'.result = "running"
                     /\ Len(after) = rest + Len(typ.return_types)
                     /\ SubSeq(after, 1, rest) = SubSeq(stack, 1, rest)
                     /\ TypesOf(SubSeq(after, rest + 1, Len(after))) = typ.return_types
                     /\ chk'.contexts = [chk.contexts EXCEPT ![Len(chk.contexts)] =
                            [Top(chk) EXCEPT !.stack = after, !.ip = @ + 1]]]_vars

\* a Call of a procedure with a parameter and a return type has just been
\* accepted over a value that lies below the parameter
C27_Witness ==
    /\ pc = "check"
    /\ chk.result = "running"
    /\ Len(seen) > 0
    /\ cs.ops[Last(seen).ip + 1].op = "Call"
    /\ Top(chk).ip = Last(seen).ip + 1
    /\ LET types == Last(seen).types
       IN  /\ Len(types) >= 3
           /\ Last(types).k = "Procedure"
           /\ Len(Last(types).parameters) > 0
           /\ Len(Last(types).return_types) > 0
           /\ Len(Top(chk).stack) =
                 Len(types) - 1 - Len(Last(types).parameters) + Len(Last(types).return_types)

\* ---------------------------------------------------------------------
\* C28
\* ---------------------------------------------------------------------

\* the context on top is removed, the others stay, and the check is over
\* once none is left
ContextEnds ==
    /\ chk'.contexts = Front(chk.contexts)
    /\ chk'.result = IF Len(chk.contexts) = 1 THEN "Ok" ELSE "running"

Refused == chk'.result = "TypeError" /\ chk'.contexts = chk.contexts

\* C28: Return is accepted only when the context's symbolic stack is
\* exactly the declared return types of the enclosing procedure (same
\* length, same order, nothing beneath), and Exit only when the symbolic
\* stack is empty; otherwise each fails with a TypeError; on acceptance
\* only that context is removed from the work-stack
C28_ReturnAndExitAcceptance ==
    [][/\ CheckStepAt({"Return"}) =>
            IF /\ Top(chk).procedure_info.some
               /\ TypesOf(Top(chk).stack) = Top(chk).procedure_info.typ.return_types
            THEN ContextEnds
            ELSE Refused
       /\ CheckStepAt({"Exit"}) =>
            IF Top(chk).stack = <<>> THEN ContextEnds ELSE Refused]_vars

\* a body context has just been removed at the Return of a procedure that
\* returns a value, and the contexts beneath it are still at work
C28_Witness ==
    /\ pc = "check"
    /\ chk.result = "running"
    /\ Len(seen) > 0
    /\ cs.ops[Last(seen).ip + 1].op = "Return"
    /\ Len(Last(seen).types) > 0
    /\ Len(chk.contexts) >= 2
    /\ \A i \in 1..Len(chk.contexts) : chk.contexts[i].ip # Last(seen).ip

\* ---------------------------------------------------------------------
\* C29
\* ---------------------------------------------------------------------

\* the ops that only work on the operand stack (type_checking.rs:92-170,
\* execution.rs:42-133)
StackOps ==
    {"PushFunctionPointer", "PushInteger", "PushType", "Not", "Dup", "Drop", "Swap"}
    \cup ArithmeticOps \cup RelationalOps \cup EqualityOps

\* the type the checker gives a runtime value
TypeOfValue(ops, v) ==
    CASE v.tag = "Integer" -> TypeInteger
      [] v.tag = "Bool" -> TypeBool
      [] v.tag = "Type" -> TypeType
      [] v.tag = "FunctionPointer" ->
            IF v.int \in 1..Len(ops) /\ ops[v.int].op = "SkipProc"
            THEN Procedure(ops[v.int].parameters, ops[v.int].return_types)
            ELSE Procedure(<<>>, <<>>)

SymbolicOf(ops, stack) ==
    [i \in 1..Len(stack) |-> Sym(TypeOfValue(ops, stack[i]), 0)]

\* the checker's step on the op the interpreter stands on, from the
\* symbolic stack that corresponds to the interpreter's operand stack
CheckerAt(ops, st) ==
    CheckStep(ops, [CheckInit EXCEPT !.contexts =
                       <<Context(st.ip, SymbolicOf(ops, st.stack), <<>>, NoProcedure)>>])

Corresponds(v, typ) ==
    \/ v.tag = "Integer" /\ typ = TypeInteger
    \/ v.tag = "Bool" /\ typ = TypeBool
    \/ v.tag = "Type" /\ typ = TypeType
    \/ v.tag = "FunctionPointer" /\ typ.k = "Procedure"

StacksCorrespond(stack, symbolic) ==
    /\ Len(stack) = Len(symbolic)
    /\ \A i \in 1..Len(stack) : Corresponds(stack[i], symbolic[i].typ)

Accepted(k) == k.result = "running"

DividesByZero == RunOp.op = "DivideInteger" /\ Last(rs.stack).int = 0

OpsBefore(ops, t) == Cardinality({i \in 1..Len(ops) : ops[i].location < t})

\* the op of the given kind compiled from the token at place t
OpOf(ops, kind, t) ==
    CHOOSE i \in 1..Len(ops) : ops[i].op = kind /\ ops[i].location = t

\* the targets of the if at place n, whose `}` of T is at place m
IfTargets(ops, toks, n, m) ==
    LET jump == ops[OpOf(ops, "ConditonalJump", n)].position
    IN  IF HasElse(toks, n)
        THEN LET skip == OpOf(ops, "Jump", m + 1)
             IN  /\ jump = skip
                 /\ \A i \in ElseOps(ops, toks, n) : jump + 1 <= i
                 /\ ElseOps(ops, toks, n) # {} => jump + 1 \in ElseOps(ops, toks, n)
                 /\ ops[skip].position = OpsBefore(ops, IfEnd(toks, n))
                 /\ \A i \in ElseOps(ops, toks, n) : i <= ops[skip].position
                 /\ ElseOps(ops, toks, n) # {} =>
                       ops[skip].position \in ElseOps(ops, toks, n)
        ELSE /\ jump = OpsBefore(ops, m)
             /\ \A i \in ThenOps(ops, toks, n) : i <= jump
             /\ ThenOps(ops, toks, n) # {} => jump \in ThenOps(ops, toks, n)

\* a jump of an if or of an else gets its target in this step of compile_ops
Written(i) ==
    /\ pc = "compile"
    /\ i <= Len(cs'.ops)
    /\ cs.ops[i].op \in {"ConditonalJump", "Jump"}
    /\ cs.tz.tokens[cs.ops[i].location].kind \in {"If", "Else"}
    /\ cs'.ops[i].position # cs.ops[i].position

\* C30: after `if { T } else { E }` is compiled, the target of the If's
\* ConditonalJump is the index of the first op of E, one past the Jump that
\* skips the else, and that Jump's target is the index one past the last op
\* of E; for an if without else the target of the ConditonalJump is the
\* index one past the last op of T.  Each target is written once, from the
\* placeholder 0, by the step that handles the `}` closing its block.
C30_IfElseJumpTargets ==
    [][/\ (pc = "compile" /\ cs'.result = "Ok") =>
            \A n \in 1..Len(cs.tz.tokens) :
                IfConstruct(cs.tz.tokens, n) =>
                    IfTargets(cs'.ops, cs.tz.tokens, n, BraceMatch(cs.tz.tokens, n + 1))
       /\ \A i \in 1..Len(cs.ops) :
            Written(i) =>
                /\ cs.ops[i].position = 0
                /\ peek_token(cs.tz).kind = "CloseBrace"
                /\ peek_token(cs.tz).location =
                      BraceMatch(cs.tz.tokens, cs.ops[i].location + 1)]_vars

\* a source with an if whose then and else blocks both hold ops, followed
\* by more ops, has been compiled
C30_Witness ==
    /\ pc # "compile"
    /\ cs.result = "Ok"
    /\ \E n \in 1..Len(cs.tz.tokens) :
          /\ IfConstruct(cs.tz.tokens, n)
          /\ HasElse(cs.tz.tokens, n)
          /\ ThenOps(cs.ops, cs.tz.tokens, n) # {}
          /\ ElseOps(cs.ops, cs.tz.tokens, n) # {}
          /\ cs.ops[OpOf(cs.ops, "ConditonalJump", n)].position
                = OpOf(cs.ops, "Jump", BraceMatch(cs.tz.tokens, n + 1) + 1)
          /\ cs.ops[OpOf(cs.ops, "Jump", BraceMatch(cs.tz.tokens, n + 1) + 1)].position
                < Len(cs.ops) - 1

\* ---------------------------------------------------------------------
\* C31
\* ---------------------------------------------------------------------

\* the jumps of the while at place w, whose `{` is at place b and whose `}`
\* is at place e
WhileTargets(ops, w, b, e) ==
    LET back == OpOf(ops, "Jump", e)
        exit == OpOf(ops, "ConditonalJump", b)
    IN  /\ \A i \in 1..Len(ops) : ops[i].location # w
        /\ ops[back].position = OpsBefore(ops, w)
        /\ ops[ops[back].position + 1].location > w
        /\ ops[exit - 1].op = "Not"
        /\ ops[exit - 1].location = b
        /\ ops[exit].position = back
        /\ \A i \in OpsBetween(ops, w, e) : i < back

\* C31: after `while C { B }` is compiled, the back Jump emitted at `}`
\* targets the index of the first op of C, the length of the op list when
\* `while` was read; the exit ConditonalJump, preceded by a Not, both
\* emitted at `{`, targets the index one past that back Jump; nothing is
\* emitted at the `while` token itself
C31_WhileJumpTargets ==
    [][/\ (pc = "compile" /\ cs'.result = "Ok") =>
            \A w \in 1..Len(cs.tz.tokens) :
                WhileConstruct(cs.tz.tokens, w) =>
                    WhileTargets(cs'.ops, w, FirstOpenBrace(cs.tz.tokens, w),
                                 WhileEnd(cs.tz.tokens, w))
       /\ (pc = "compile" /\ peek_kind(cs.tz) = "While") =>
            /\ cs'.ops = cs.ops
            /\ Last(cs'.block_stack).position = Len(cs.ops)]_vars

\* a source with a while whose condition and body both hold ops, and which
\* does not start the program, has been compiled
C31_Witness ==
    /\ pc # "compile"
    /\ cs.result = "Ok"
    /\ \E w \in 1..Len(cs.tz.tokens) :
          /\ WhileConstruct(cs.tz.tokens, w)
          /\ BodyOps(cs.ops, cs.tz.tokens, w) # {}
          /\ FirstOpenBrace(cs.tz.tokens, w) > w + 1
          /\ cs.ops[OpOf(cs.ops, "Jump", WhileEnd(cs.tz.tokens, w))].position > 0
          /\ cs.ops[OpOf(cs.ops, "ConditonalJump", FirstOpenBrace(cs.tz.tokens, w))].position
                = OpOf(cs.ops, "Jump", WhileEnd(cs.tz.tokens, w))

\* ---------------------------------------------------------------------
\* C32
\* ---------------------------------------------------------------------

\* the `}` that closes the body of the proc whose SkipProc is op s; 0 when
\* the body is not closed
ProcEnd(ops, toks, s) ==
    IF FirstOpenBrace(toks, ops[s].location) = 0 THEN 0
    ELSE BraceMatch(toks, FirstOpenBrace(toks, ops[s].location))

\* the SkipProc at op s skips to one past the Return compiled from the `}`
\* at place e, and the ops of the body lie between the two
SkipsBody(ops, toks, s, e) ==
    LET target == ops[s].position
    IN  /\ target >= 2
        /\ target <= Len(ops)
        /\ ops[target].op = "Return"
        /\ ops[target].location = e
        /\ s < target
        /\ \A i \in OpsBetween(ops, FirstOpenBrace(toks, ops[s].location), e) :
              s < i /\ i < target

\* the PushFunctionPointer at op i points one past a SkipProc that declares
\* the name it was compiled from
PointsAtEntry(ops, toks, i) ==
    LET value == ops[i].value
    IN  /\ value >= 1
        /\ value <= Len(ops)
        /\ ops[value].op = "SkipProc"
        /\ toks[ops[value].location + 1].kind = "Name"
        /\ toks[ops[value].location + 1].str = toks[ops[i].location].str

\* C32: after a named proc is compiled, its SkipProc targets the index one
\* past the Return that closes the body, and every reference to the name of
\* a procedure compiles to a PushFunctionPointer whose value is the index
\* of the SkipProc + 1, never the index of the SkipProc itself
C32_ProcTargets ==
    [][(pc = "compile" /\ cs'.result = "Ok") =>
            /\ \A s \in Places(cs'.ops, {"SkipProc"}) :
                  ProcEnd(cs'.ops, cs.tz.tokens, s) # 0 =>
                      SkipsBody(cs'.ops, cs.tz.tokens, s,
                                ProcEnd(cs'.ops, cs.tz.tokens, s))
            /\ \A i \in Places(cs'.ops, {"PushFunctionPointer"}) :
                  PointsAtEntry(cs'.ops, cs.tz.tokens, i)]_vars

\* a program with a closed procedure that has ops in its body and is
\* referred to by name after the body has been compiled
C32_Witness ==
    /\ pc # "compile"
    /\ cs.result = "Ok"
    /\ \E s \in Places(cs.ops, {"SkipProc"}) :
          /\ ProcEnd(cs.ops, cs.tz.tokens, s) # 0
          /\ cs.ops[s].position > s + 1
          /\ \E i \in Places(cs.ops, {"PushFunctionPointer"}) :
                cs.ops[i].value = s /\ i > cs.ops[s].position

\* ---------------------------------------------------------------------
\* C33
\* ---------------------------------------------------------------------

\* compile_ops handles a name that is no built-in type
NameStep ==
    /\ pc = "compile"
    /\ cs.result = "running"
    /\ peek_token(cs.tz).kind = "Name"
    /\ ~IsTypeName(peek_token(cs.tz))

\* the declarations of the name at place r that are in force there: the
\* named procs before r with that name whose enclosing block has not been
\* closed between the declaration and r
Visible(toks, r) ==
    {d \in NamedProcs(toks) :
        /\ d < r
        /\ toks[d + 1].str = toks[r].str
        /\ \A j \in d..(r - 1) : BraceDepth(toks, j + 1) >= BraceDepth(toks, d)}

Latest(S) == CHOOSE d \in S : \A e \in S : e <= d

\* the name at place r compiles to a pointer to the entry of the latest
\* declaration in force, or is an error when there is none
Resolves(toks, r, decls) ==
    IF decls = {}
    THEN /\ cs'.result = "Err"
         /\ cs'.err_kind = "Name"
         /\ cs'.err_location = r
    ELSE /\ cs'.result = "running"
         /\ cs'.ops = Append(cs.ops,
                             OpPushFunctionPointer(r, OpOf(cs.ops, "SkipProc", Latest(decls))))

\* C33: a name is resolved against the scopes innermost to outermost and,
\* within one scope, latest declaration first: an inner or later
\* declaration of a name shadows an outer or earlier one, and a declaration
\* made inside a block is no longer resolvable after the `}` of that block
C33_NameResolution ==
    [][NameStep =>
         Resolves(cs.tz.tokens, peek_token(cs.tz).location,
                  Visible(cs.tz.tokens, peek_token(cs.tz).location))]_vars

\* `proc f() { } proc f() { proc f() { } f call } f call` has been
\* compiled: the reference inside the second body points at the third
\* declaration, the last reference at the second
C33_Witness ==
    /\ cs.tz.tokens = Located(SrcShadowing)
    /\ cs.result = "Ok"
    /\ \E i, j \in Places(cs.ops, {"PushFunctionPointer"}) :
          /\ i < j
          /\ cs.ops[cs.ops[i].value].location = 12
          /\ cs.ops[cs.ops[j].value].location = 7

\* ---------------------------------------------------------------------
\* C34
\* ---------------------------------------------------------------------

ScopedBlocks == {"If", "Else", "WhileBody", "Proc"}

\* the descriptors on the block stack that own a scope
Scoped(block_stack) ==
    {i \in 1..Len(block_stack) : block_stack[i].type \in ScopedBlocks}

InLockStep(c) == Len(c.scopes) = 1 + Cardinality(Scoped(c.block_stack))

\* compile_ops accepts a `}`
AcceptedCloseBrace ==
    /\ pc = "compile"
    /\ cs.result = "running"
    /\ peek_kind(cs.tz) = "CloseBrace"
    /\ cs'.result \in {"running", "Ok"}

\* what is left of both stacks once the `}` has popped them; a `}`
\* followed by `else {` goes on to open the else block and its scope
PopsOneOfEach ==
    IF peek_kind(next_token(cs.tz).tz) = "Else"
    THEN /\ Front(cs'.block_stack) = Front(cs.block_stack)
         /\ Last(cs'.block_stack).type = "Else"
         /\ cs'.scopes = Append(Front(cs.scopes), <<>>)
    ELSE /\ cs'.block_stack = Front(cs.block_stack)
         /\ cs'.scopes = Front(cs.scopes)

\* C34: as long as compile_ops has returned no error the scope stack has
\* exactly one entry more than there are If, Else, WhileBody and Proc
\* descriptors on the block stack (a pending While owns no scope), and each
\* accepted `}` pops exactly one block descriptor and one scope
C34_ScopesInLockStep ==
    /\ [](cs.result \in {"running", "Ok"} => InLockStep(cs))
    /\ [][AcceptedCloseBrace =>
            /\ cs.block_stack # <<>>
            /\ Last(cs.block_stack).type \in ScopedBlocks
            /\ PopsOneOfEach]_vars

\* a `}` has just closed the body of a while loop inside another block:
\* the back jump is the last op, the enclosing block and its scope remain
C34_Witness ==
    /\ pc = "compile"
    /\ cs.result = "running"
    /\ cs.tz.position > 0
    /\ cs.tz.tokens[cs.tz.position].kind = "CloseBrace"
    /\ cs.ops # <<>>
    /\ Last(cs.ops).op = "Jump"
    /\ Last(cs.ops).location = cs.tz.position
    /\ Cardinality(Scoped(cs.block_stack)) >= 1
    /\ Len(cs.scopes) = 1 + Cardinality(Scoped(cs.block_stack))

\* ---------------------------------------------------------------------
\* C35
\* ---------------------------------------------------------------------

NonCommutativeOps == {"SubtractInteger", "DivideInteger"} \cup RelationalOps

\* the value left by a non-commutative op on left and right, right # 0
\* for a division; the model's integers are non-negative before the op
LeftRight(op, left, right) ==
    CASE op = "SubtractInteger" -> VInteger(left - right)
      [] op = "DivideInteger" ->
            VInteger(CHOOSE q \in 0..left : q * right <= left /\ left < (q + 1) * right)
      [] op = "LessThanInteger" -> VBool(left < right)
      [] op = "GreaterThanInteger" -> VBool(left > right)
      [] op = "LessThanEqualInteger" -> VBool(left <= right)
      [] op = "GreaterThanEqualInteger" -> VBool(left >= right)

\* C35: for the non-commutative binary ops the operand pushed first is the
\* left operand: with a pushed before b, Sub leaves a-b, Div leaves a/b and
\* Lt/Gt/Le/Ge leave Bool(a<b), Bool(a>b), Bool(a<=b), Bool(a>=b); exactly
\* two values are consumed and one is pushed
C35_FirstPushedIsLeftOperand ==
    [][(RunStepAt(NonCommutativeOps) /\ rs'.result = "running") =>
         /\ Len(rs.stack) >= 2
         /\ rs'.stack = Append(DropLast(rs.stack, 2),
                               LeftRight(RunOp.op,
                                         rs.stack[Len(rs.stack) - 1].int,
                                         Last(rs.stack).int))]_vars

\* `7 2 /` has left 3
C35_Witness ==
    /\ pc = "run"
    /\ cs.tz.tokens = Located(SrcDivide)
    /\ rs.result = "running"
    /\ rs.stack = <<VInteger(3)>>

\* ---------------------------------------------------------------------
\* C36
\* ---------------------------------------------------------------------

\* the source holds no while
WhileFree(toks) == \A i \in 1..Len(toks) : toks[i].kind # "While"

\* the types are those of the topmost values of the stack, in order
TopCorresponds(stack, types) ==
    /\ Len(types) <= Len(stack)
    /\ \A k \in 1..Len(types) :
          Corresponds(stack[Len(stack) - Len(types) + k], types[k])

\* some context of the checker stood on the op the interpreter stands on
\* with the types of the interpreter's stack (of its topmost values, inside
\* a procedure body, whose context starts from the parameters alone)
Followed ==
    \E i \in 1..Len(seen) :
        /\ seen[i].ip = rs.ip
        /\ TopCorresponds(rs.stack, seen[i].types)

\* C36: for every compiled program that contains no while loop, acceptance
\* by type_check_ops implies that every execution of run_ops is free of
\* operand-stack underflow and tag mismatch, every concrete path being
\* followed op for op by some checker context with matching stack types
C36_WhileFreeProgramsRunSafely ==
    (WhileFree(cs.tz.tokens) /\ cs.result = "Ok" /\ chk.result = "Ok") =>
        /\ rs.result \notin {"underflow", "tag"}
        /\ (pc = "run" /\ rs.result = "running") => Followed

\* an accepted program with an if/else and a call is running inside the
\* procedure body
C36_Witness ==
    /\ WhileFree(cs.tz.tokens)
    /\ cs.result = "Ok"
    /\ chk.result = "Ok"
    /\ pc = "run"
    /\ rs.result = "running"
    /\ rs.return_stack # <<>>
    /\ Places(cs.ops, {"ConditonalJump"}) # {}
    /\ steps > 0

\* ---------------------------------------------------------------------
\* C37
\* ---------------------------------------------------------------------

\* the name at place r stands in the closed body of the named proc at
\* place d, names d and is not shadowed there
SelfReference(toks, d, r) ==
    /\ d \in NamedProcs(toks)
    /\ toks[r].kind = "Name"
    /\ ParenDepth(toks, r) = 0
    /\ FirstOpenBrace(toks, d) # 0
    /\ BraceMatch(toks, FirstOpenBrace(toks, d)) # 0
    /\ FirstOpenBrace(toks, d) < r
    /\ r < BraceMatch(toks, FirstOpenBrace(toks, d))
    /\ Visible(toks, r) # {}
    /\ Latest(Visible(toks, r)) = d

SelfReferences(toks) ==
    UNION {{<<d, r>> : r \in {n \in (d + 1)..Len(toks) : SelfReference(toks, d, n)}} :
             d \in NamedProcs(toks)}

\* the reference at place r is a pointer to the entry of the proc at place
\* d, which lies before it
PointsAtOwnEntry(ops, d, r) ==
    /\ \E i \in Places(ops, {"PushFunctionPointer"}) : ops[i].location = r
    /\ \E s \in Places(ops, {"SkipProc"}) : ops[s].location = d
    /\ ops[OpOf(ops, "PushFunctionPointer", r)].value = OpOf(ops, "SkipProc", d)
    /\ OpOf(ops, "SkipProc", d) < OpOf(ops, "PushFunctionPointer", r)
    /\ OpOf(ops, "PushFunctionPointer", r) < ops[OpOf(ops, "SkipProc", d)].position

\* C37: the name of a named procedure is resolvable inside its own body,
\* so direct recursion compiles to a PushFunctionPointer to its own entry,
\* and type_check_ops terminates on such a program: a Call is checked
\* against the signature only and never enters or re-spawns the body
C37_RecursionCompilesAndCheckTerminates ==
    /\ [](cs.result = "Ok" =>
            /\ \A p \in SelfReferences(cs.tz.tokens) :
                  PointsAtOwnEntry(cs.ops, p[1], p[2])
            /\ (SelfReferences(cs.tz.tokens) # {} /\ pc \in {"run", "done"}) =>
                  chk.result # "running")
    /\ [][CheckStepAt({"Call"}) =>
            /\ started' = started
            /\ chk'.result = "running" =>
                  /\ Len(chk'.contexts) = Len(chk.contexts)
                  /\ Front(chk'.contexts) = Front(chk.contexts)
                  /\ Top(chk').ip = Top(chk).ip + 1
                  /\ Top(chk').procedure_info = Top(chk).procedure_info]_vars

\* the checker has accepted a program with a procedure that calls itself,
\* after checking the Call inside the body
C37_Witness ==
    /\ cs.result = "Ok"
    /\ SelfReferences(cs.tz.tokens) # {}
    /\ pc \in {"run", "done"}
    /\ chk.result = "Ok"
    /\ \E i \in 1..Len(seen) :
          /\ seen[i].ip + 1 \in Places(cs.ops, {"Call"})
          /\ \E s \in Places(cs.ops, {"SkipProc"}) :
                s < seen[i].ip + 1 /\ seen[i].ip + 1 < cs.ops[s].position

\* ---------------------------------------------------------------------
\* C38
\* ---------------------------------------------------------------------

\* compile_ops has returned Ok with every block closed; the trailing Exit
\* is the last op
ClosedProgram ==
    /\ pc # "compile"
    /\ cs.result = "Ok"
    /\ cs.block_stack = <<>>
    /\ Last(cs.ops).op = "Exit"

\* C38: for every program compiled with all blocks closed and the trailing
\* Exit appended, the instruction pointer of run_ops and of every checker
\* context is at all times a valid index into the op list: neither
\* component ever indexes past the end of the list
C38_InstructionPointersInRange ==
    ClosedProgram =>
        /\ rs.ip \in 0..(Len(cs.ops) - 1)
        /\ rs.result # "oob"
        /\ chk.result # "Panic" =>
              \A i \in 1..Len(chk.contexts) :
                  chk.contexts[i].ip \in 0..(Len(cs.ops) - 1)
        /\ \A i \in 1..Len(seen) : seen[i].ip \in 0..(Len(cs.ops) - 1)

\* run_ops has reached the trailing Exit of a closed program through a
\* jump that targets it, after the checker has walked two contexts there
C38_Witness ==
    /\ ClosedProgram
    /\ pc = "done"
    /\ rs.result = "exit"
    /\ rs.ip = Len(cs.ops) - 1
    /\ \E j \in Places(cs.ops, {"ConditonalJump", "Jump", "SkipProc"}) :
          cs.ops[j].position = Len(cs.ops) - 1
    /\ Cardinality({i \in 1..Len(seen) : seen[i].ip = Len(cs.ops) - 1}) >= 2

\* ---------------------------------------------------------------------
\* C39
\* ---------------------------------------------------------------------

\* the op at 0-based index value - 1 exists and is a SkipProc
EntryOfSkipProc(ops, value) ==
    /\ value >= 1
    /\ value - 1 < Len(ops)
    /\ ops[(value - 1) + 1].op = "SkipProc"

\* C39: in every op list produced by compile_ops each PushFunctionPointer
\* value v satisfies v >= 1 and ops[v-1] is a SkipProc, so the signature
\* lookup of the checker at PushFunctionPointer never reaches its
\* unreachable!() branch nor underflows v-1
C39_PointersNameSkipProcs ==
    /\ [](\A i \in Places(cs.ops, {"PushFunctionPointer"}) :
             EntryOfSkipProc(cs.ops, cs.ops[i].value))
    /\ [][CheckStepAt({"PushFunctionPointer"}) =>
            /\ chk'.result = "running"
            /\ Top(chk').ip = Top(chk).ip + 1
            /\ Front(Top(chk').stack) = Top(chk).stack
            /\ Last(Top(chk').stack).typ =
                  Procedure(cs.ops[CheckOp.value].parameters,
                            cs.ops[CheckOp.value].return_types)]_vars

\* the checker has just taken the signature of a procedure with
\* parameters from the SkipProc a pointer names
C39_Witness ==
    /\ pc = "check"
    /\ seen # <<>>
    /\ cs.ops[Last(seen).ip + 1].op = "PushFunctionPointer"
    /\ chk.result = "running"
    /\ Top(chk).ip = Last(seen).ip + 1
    /\ Top(chk).stack # <<>>
    /\ Last(Top(chk).stack).typ.k = "Procedure"
    /\ Last(Top(chk).stack).typ.parameters # <<>>
    /\ Last(Top(chk).stack).typ.parameters =
          cs.ops[cs.ops[Last(seen).ip + 1].value].parameters

====
